---- MODULE Spec2Model ----
(***************************************************************************)
(* A model of the gdb pretty-printers of gdb/python/lib:                   *)
(*   google/google3/printers.py   record decoders (Proto1MessagePrinter,   *)
(*                                Proto2MessagePrinter), repeated-field    *)
(*                                printers, _HashTableIterator             *)
(*   libstdcxx/v6/printers.py     RbtreeIterator, Tr1HashtableIterator     *)
(*                                                                         *)
(* Three specifications share the variables:                               *)
(*   SpecMsg   one to_string call of a record decoder on an input record   *)
(*   SpecRb    one RbtreeIterator walked by next() calls                   *)
(*   SpecHash  one hashed-container iterator walked by next() calls        *)
(* Output text is a sequence of pieces <<kind, name, val>>; the pieces     *)
(* "lt", "gt" and "sp" are the characters '<', '>' and ' '.                *)
(***************************************************************************)
EXTENDS Integers, Sequences, FiniteSets, TLC

VARIABLES
    msg,          \* the inspected record: type description and memory
    pc,           \* position of the running to_string / iterator
    result,       \* to_string: the string built so far (pieces)
    first,        \* to_string: the `first' flag
    bits,         \* to_string: the presence bits read once
    kBit,         \* Proto2 to_string: running bit index
    dup_index,    \* Proto2 to_string: sort_data_fields' result (-1: None)
    todo,         \* to_string: the fields the loop still has to visit
    exc,          \* the exception that left to_string ("" when none)
    tree,         \* SpecRb: the inspected _Rb_tree (nodes, header, count)
    rb,           \* SpecRb: the RbtreeIterator object
    yielded,      \* iterators: what next() has returned so far
    table,        \* SpecHash: the inspected hash table
    ht,           \* SpecHash: the iterator object
    mp,           \* SpecMap: the StdMapPrinter._iter object
    cord,         \* SpecCord: the inspected Cord and the display limit
    cp,           \* SpecCord: the CordPrinter object and what it returned
    arr,          \* SpecArray: the inspected repeated-field array
    ap,           \* SpecArray: the array printer's call and what it returned
    vtype,        \* SpecReg: the type of the value gdb looks a printer up for
    reg           \* SpecReg: obj.pretty_printers and the printer found

vars == <<msg, pc, result, first, bits, kBit, dup_index, todo, exc,
          tree, rb, yielded, table, ht, mp, cord, cp, arr, ap, vtype, reg>>

msgVars == <<msg, pc, result, first, bits, kBit, dup_index, todo, exc>>
rbVars == <<tree, rb>>
hashVars == <<table, ht>>
cordVars == <<cord, cp>>
arrVars == <<arr, ap>>
regVars == <<vtype, reg>>
auxVars == <<mp, cordVars, arrVars, regVars>>

(***************************************************************************)
(* Bounds of the model.                                                    *)
(***************************************************************************)
\* longest schema (entries in declaration order) of an inspected record
MaxFields == 3
\* largest size of a repeated field
MaxElems == 2

(***************************************************************************)
(* Pieces of output text.                                                  *)
(***************************************************************************)
NoName == <<>>
LT == <<"lt", NoName, 0>>
GT == <<"gt", NoName, 0>>
SP == <<"sp", NoName, 0>>
\* 'name:value'
NameValue(name, v) == <<"nv", name, v>>
\* 'name:<GDB/Python runtime error: ...>' (an element of a repeated field)
NameError(name) == <<"nverr", name, 0>>
\* '<name: GDB/Python runtime error: ...>'
FieldError(name) == <<"err", name, 0>>
\* '<GDB/Python runtime error: ...>'
BareError == <<"err", NoName, 0>>
\* '<name: bad kHasBit value: N>'
BadHasBit(name, n) == <<"badbit", name, n>>
\* '[ MessageSet with N element(s) ]'
MessageSet(n) == <<"mset", NoName, n>>
\* '<>': a message-set without element
EmptySet == <<"emptyset", NoName, 0>>
\* 'remaining fields are unavailable'
Remaining == <<"remaining", NoName, 0>>

(***************************************************************************)
(* Names are sequences of characters.                                      *)
(***************************************************************************)
Upper == {"A", "B", "C", "D", "X", "F", "N", "H", "I"}

ToLower(ch) ==
    CASE ch = "A" -> "a" [] ch = "B" -> "b" [] ch = "C" -> "c"
      [] ch = "D" -> "d" [] ch = "X" -> "x" [] ch = "F" -> "f"
      [] ch = "N" -> "n" [] ch = "H" -> "h" [] ch = "I" -> "i"
      [] OTHER -> ch

\* Python s[lo:hi] for 0 <= lo, with hi counted from the end when negative
Slice(s, lo, hi) ==
    LET h == IF hi < 0 THEN Len(s) + hi ELSE IF hi > Len(s) THEN Len(s) ELSE hi
    IN  IF h <= lo THEN <<>> ELSE SubSeq(s, lo + 1, h)

StartsWith(s, p) == Len(s) >= Len(p) /\ SubSeq(s, 1, Len(p)) = p

EndsWith(s, p) == Len(s) >= Len(p) /\ SubSeq(s, Len(s) - Len(p) + 1, Len(s)) = p

FieldNumber == <<"F", "i", "e", "l", "d", "N", "u", "m", "b", "e", "r">>
HasBitPrefix == <<"k", "H", "a", "s", "B", "i", "t", "_">>
HASBITS == <<"h", "a", "s", "b", "i", "t", "s", "_">>
UNKNOWN_FIELDS == <<"u", "n", "k", "n", "o", "w", "n", "_", "f", "i", "e", "l", "d", "s", "_">>
CACHED_BYTE_SIZE == <<"_", "c", "a", "c", "h", "e", "d", "_", "b", "y", "t", "e", "_", "s", "i", "z", "e", "_">>
HAS_BITS2 == <<"_", "h", "a", "s", "_", "b", "i", "t", "s", "_">>
EXTENSIONS == <<"_", "e", "x", "t", "e", "n", "s", "i", "o", "n", "s", "_">>
UNKNOWN_FIELDS2 == <<"_">> \o UNKNOWN_FIELDS
CACHED_SIZE == <<"_", "c", "a", "c", "h", "e", "d", "_", "s", "i", "z", "e", "_">>

Digits == {"0", "1", "2", "3", "4", "5", "6", "7", "8", "9"}

\* re '^k.*FieldNumber(_[0-9]*)?$'
RECURSIVE AllDigits(_)
AllDigits(s) == s = <<>> \/ (Head(s) \in Digits /\ AllDigits(Tail(s)))

field_number_field_re(name) ==
    /\ StartsWith(name, <<"k">>)
    /\ \E cut \in 1..Len(name) :
          /\ EndsWith(SubSeq(name, 2, cut), FieldNumber)
          /\ \/ cut = Len(name)
             \/ /\ name[cut + 1] = "_"
                /\ AllDigits(SubSeq(name, cut + 2, Len(name)))

\* field_name.lower().replace("_", "")
RECURSIVE dict_key(_)
dict_key(field_name) ==
    IF field_name = <<>> THEN <<>>
    ELSE IF Head(field_name) = "_" THEN dict_key(Tail(field_name))
    ELSE <<ToLower(Head(field_name))>> \o dict_key(Tail(field_name))

(***************************************************************************)
(* The inspected record.  msg.schema lists catalogue entries in the order  *)
(* of declaration in the .proto file; an entry is a data field with its    *)
(* k<Name>FieldNumber marker (Variant B) or its kHasBit_<name> constant    *)
(* (Variant A), a marker without data field (an extension), or a data      *)
(* field whose marker is missing.                                          *)
(***************************************************************************)
NoFail == <<"none", NoName, 0>>
FailBitmap == <<"bitmap", NoName, 0>>
FailExt == <<"ext", NoName, 0>>
FailField(name) == <<"field", name, 0>>
FailElem(i) == <<"elem", NoName, i>>

Marker(camel) == <<"k">> \o camel \o FieldNumber

\* the field of a message-set
ITEMS == <<"i", "t", "e", "m", "s", "_">>

Cat(id) ==
    CASE id = "a"   -> [data |-> <<"a", "_">>, marker |-> Marker(<<"A">>), rep |-> FALSE]
      [] id = "c"   -> [data |-> <<"c", "_">>, marker |-> Marker(<<"C">>), rep |-> TRUE]
      [] id = "a_b" -> [data |-> <<"a", "_", "b", "_">>, marker |-> Marker(<<"A", "B">>), rep |-> FALSE]
      [] id = "ab"  -> [data |-> <<"a", "b", "_">>, marker |-> Marker(<<"A", "b">>), rep |-> FALSE]
      [] id = "x"   -> [data |-> NoName, marker |-> Marker(<<"X">>), rep |-> FALSE]
      [] id = "d"   -> [data |-> <<"d", "_">>, marker |-> Marker(<<"D">>), rep |-> TRUE]
      [] id = "items" -> [data |-> ITEMS, marker |-> Marker(<<"I", "t", "e", "m", "s">>), rep |-> TRUE]

Proto1Ids == {"a", "ab", "c"}
Proto2Ids == {"a", "c", "a_b", "ab", "x"}
\* the entries of the records with collections of every kind: c an array of
\* values, d an array of pointers, items a message-set
CollectionIds == {"a", "c", "d", "items"}

RECURSIVE SeqsNoRepeat(_, _)
SeqsNoRepeat(S, n) ==
    IF n = 0 THEN {<<>>}
    ELSE LET shorter == SeqsNoRepeat(S, n - 1)
         IN  shorter \cup
             {Append(s, x) : s \in {t \in shorter : Len(t) = n - 1},
                             x \in S}

NoRepeat(s) == \A i, j \in 1..Len(s) : i # j => s[i] # s[j]

Schemas(ids) == {s \in SeqsNoRepeat(ids, MaxFields) : NoRepeat(s)}

RECURSIVE Reverse(_)
Reverse(s) == IF s = <<>> THEN <<>> ELSE Append(Reverse(Tail(s)), Head(s))


HasData(id) == Cat(id).data # NoName
IsOptional(id) == HasData(id) /\ ~Cat(id).rep

DataIds(m) == SelectSeq(m.schema, HasData)
\* the entries whose k<Name>FieldNumber constant the class declares
MarkerIds(m) == LET Declared(id) == id # m.dropMarker IN SelectSeq(m.schema, Declared)
OptionalIds(m) == SelectSeq(m.schema, IsOptional)

IndexOf(s, x) == CHOOSE i \in 1..Len(s) : s[i] = x

\* the type tag of a data field's type; "" for a scalar
TagOf(m, id) ==
    IF ~Cat(id).rep \/ id = "items" THEN ""
    ELSE IF id = "d"
    THEN IF m.variant = "proto1" THEN "ProtoPtrArray" ELSE "proto2::RepeatedPtrField"
    ELSE IF m.variant = "proto1" THEN "ProtoArray" ELSE "proto2::RepeatedField"

\* a field of the type: its name, whether it is static, the tag of its type
\* and whether its type is a pointer (tp.code == gdb.TYPE_CODE_PTR)
DataField(m, id) ==
    [name |-> Cat(id).data, static |-> FALSE, tag |-> TagOf(m, id),
     ptr |-> id = "items"]
StaticField(name) == [name |-> name, static |-> TRUE, tag |-> "", ptr |-> FALSE]
Bookkeeping(name) == [name |-> name, static |-> FALSE, tag |-> "", ptr |-> FALSE]


\* the optional fields n00 .. n<lead - 1> a Variant B class declares before
\* the entries of its schema: markers kN00FieldNumber .., data fields n00_ ..
Decimal == <<"0", "1", "2", "3", "4", "5", "6", "7", "8", "9">>
LeadMarkers(m) ==
    [i \in 1..m.lead |->
        StaticField(Marker(<<"N", Decimal[((i - 1) \div 10) + 1], Decimal[((i - 1) % 10) + 1]>>))]
LeadData(m) ==
    [i \in 1..m.lead |->
        [name |-> <<"n", Decimal[((i - 1) \div 10) + 1], Decimal[((i - 1) % 10) + 1], "_">>,
         static |-> FALSE, tag |-> "", ptr |-> FALSE]]

\* the data fields in the order of the memory layout
PhysicalData(m) ==
    LET F(id) == DataField(m, id)
    IN  [i \in 1..Len(DataIds(m)) |->
            F((IF m.rev THEN Reverse(DataIds(m)) ELSE DataIds(m))[i])]

\* self.type.fields()[1:]: the fields after the base-class field
TypeFields(m) ==
    IF m.variant = "proto1"
    THEN LET K(id) == StaticField(HasBitPrefix \o Slice(Cat(id).data, 0, -1))
         IN  [i \in 1..Len(OptionalIds(m)) |-> K(OptionalIds(m)[i])]
             \o PhysicalData(m)
             \o (IF m.hasBitmap THEN <<Bookkeeping(HASBITS)>> ELSE <<>>)
             \o <<Bookkeeping(CACHED_BYTE_SIZE), Bookkeeping(UNKNOWN_FIELDS)>>
    ELSE LET K(id) == StaticField(Cat(id).marker)
         IN  LeadMarkers(m)
             \o [i \in 1..Len(MarkerIds(m)) |-> K(MarkerIds(m)[i])]
             \o (IF m.extPresent THEN <<Bookkeeping(EXTENSIONS)>> ELSE <<>>)
             \o <<Bookkeeping(UNKNOWN_FIELDS2)>>
             \o LeadData(m)
             \o PhysicalData(m)
             \o <<Bookkeeping(CACHED_SIZE)>>
             \o (IF m.hasBitmap THEN <<Bookkeeping(HAS_BITS2)>> ELSE <<>>)

\* gdb.types.has_field
has_field(m, name) == \E i \in 1..Len(TypeFields(m)) : TypeFields(m)[i].name = name

\* the bit index the generated class gives a data field: kHasBit_<name>
\* (Variant A: the optional fields are numbered), the field's index among
\* the data fields of the message (Variant B)
BitIndex(variant, schema, id) ==
    IF variant = "proto1"
    THEN IndexOf(SelectSeq(schema, IsOptional), id) - 1
    ELSE IndexOf(SelectSeq(schema, HasData), id) - 1

\* the value of the static constant kHasBit_<name> of a Variant A record:
\* the field's position among the optional fields, or a negative number in
\* a mis-generated class (http://b/3190112)
KHasBitValue(m, id) ==
    IF m.badBit = id THEN 0 - IndexOf(m.schema, id)
    ELSE BitIndex(m.variant, m.schema, id)

\* self.val[kBit_name], None (here "None") when the lookup raises
KHasBitLookup(m, kBit_name) ==
    LET hits == {id \in {m.schema[i] : i \in 1..Len(m.schema)} :
                    /\ IsOptional(id)
                    /\ HasBitPrefix \o Slice(Cat(id).data, 0, -1) = kBit_name}
    IN  IF hits = {} THEN [none |-> TRUE, value |-> 0]
        ELSE [none |-> FALSE, value |-> KHasBitValue(m, CHOOSE id \in hits : TRUE)]

\* the value an optional field holds, and the elements of a repeated field
FieldVal(name) == 1
ElemVal(i) == i + 1

(***************************************************************************)
(* ProtoArrayPrinter and ProtoMessagePrinter (common to both variants).    *)
(***************************************************************************)
\* 0xCDCDCDCD read as a signed 32-bit integer
Poison == -842150451
Dangling == <<"dangling", NoName, 0>>
\* str(value) of an element printed without a field name
Value(v) == <<"val", NoName, v>>

\* the loop of ProtoArrayPrinter.to_string, from element i on; a failing
\* str(value) appends the error text and leaves the loop
RECURSIVE ArrayLoop(_, _, _, _, _, _)
ArrayLoop(i, n, name, fail, isFirst, text) ==
    IF i >= n THEN text
    ELSE LET spaced == IF ~isFirst THEN Append(text, SP) ELSE text
         IN  IF fail = FailElem(i)
             THEN Append(spaced, IF name # NoName THEN NameError(name) ELSE BareError)
             ELSE ArrayLoop(i + 1, n, name, fail, FALSE,
                            Append(spaced, IF name # NoName
                                           THEN NameValue(name, ElemVal(i))
                                           ELSE Value(ElemVal(i))))

\* a variant that takes an array of one element for an empty one
ProtoArrayPrinter_to_string_skips_single(size, limit, name, fail) ==
    IF size = Poison THEN <<Dangling>>
    ELSE IF size <= 1 THEN <<>>
    ELSE LET n == IF limit # 0 /\ limit < size THEN limit ELSE size
             text == ArrayLoop(0, n, name, fail, TRUE, <<>>)
         IN  IF name # NoName THEN text ELSE <<LT>> \o text \o <<GT>>

\* a variant that shows the first element only
ProtoArrayPrinter_to_string_first_only(size, limit, name, fail) ==
    IF size = Poison THEN <<Dangling>>
    ELSE IF size <= 0 THEN <<>>
    ELSE LET text == ArrayLoop(0, 1, name, fail, TRUE, <<>>)
         IN  IF name # NoName THEN text ELSE <<LT>> \o text \o <<GT>>

\* ProtoArrayPrinter.to_string; limit 0 stands for None (unlimited)
ProtoArrayPrinter_to_string(size, limit, name, fail) ==
    IF size = Poison THEN <<Dangling>>
    ELSE IF size <= 0 THEN <<>>
    ELSE LET n == IF limit # 0 /\ limit < size THEN limit ELSE size
             text == ArrayLoop(0, n, name, fail, TRUE, <<>>)
         IN  IF name # NoName THEN text ELSE <<LT>> \o text \o <<GT>>

\* ProtoPtrArrayPrinter.to_string; limit 0 stands for None (unlimited).
\* The statements are those of ProtoArrayPrinter.to_string but for the
\* cast and dereference of the slot.
ProtoPtrArrayPrinter_to_string(size, limit, name, fail) ==
    IF size = Poison THEN <<Dangling>>
    ELSE IF size <= 0 THEN <<>>
    ELSE LET n == IF limit # 0 /\ limit < size THEN limit ELSE size
             text == ArrayLoop(0, n, name, fail, TRUE, <<>>)
         IN  IF name # NoName THEN text ELSE <<LT>> \o text \o <<GT>>

Returned(text) == [raised |-> "", text |-> text]
Raised(e) == [raised |-> e, text |-> <<>>]

\* ProtoMessagePrinter.repeated_field on field f
repeated_field(m, f) ==
    IF m.fail = FailField(f.name) THEN Raised("RuntimeError")
    ELSE IF f.ptr /\ f.name = ITEMS
    THEN Returned(IF m.isize = 0 THEN <<EmptySet>> ELSE <<MessageSet(m.isize)>>)
    ELSE IF f.tag = "" THEN Raised("TypeError")
    ELSE IF f.tag \in {"ProtoArray", "proto2::RepeatedField"}
    THEN Returned(ProtoArrayPrinter_to_string(m.csize, m.limit,
                                              Slice(f.name, 0, -1), m.fail))
    ELSE IF f.tag \in {"ProtoPtrArray", "proto2::RepeatedPtrField"}
    THEN Returned(ProtoPtrArrayPrinter_to_string(m.csize, m.limit,
                                                 Slice(f.name, 0, -1), m.fail))
    ELSE Raised("RuntimeError")

\* the loop of ProtoMessagePrinter.to_string_repeated_only
RECURSIVE RepeatedOnlyLoop(_, _, _, _)
RepeatedOnlyLoop(m, fields, isFirst, text) ==
    IF fields = <<>> THEN Returned(text)
    ELSE LET f == Head(fields)
             rest == Tail(fields)
         IN  IF f.name = UNKNOWN_FIELDS THEN Returned(text)
             ELSE IF StartsWith(f.name, <<"_">>) \/ f.static
             THEN RepeatedOnlyLoop(m, rest, isFirst, text)
             ELSE LET t == repeated_field(m, f)
                  IN  IF t.raised = "RuntimeError"
                      THEN RepeatedOnlyLoop(m, rest, isFirst,
                                            Append(text, FieldError(f.name)))
                      ELSE IF t.raised # "" THEN t
                      ELSE IF t.text # <<>>
                      THEN RepeatedOnlyLoop(m, rest, FALSE,
                               (IF ~isFirst THEN Append(text, SP) ELSE text) \o t.text)
                      ELSE RepeatedOnlyLoop(m, rest, isFirst, text)

to_string_repeated_only(m) ==
    LET r == RepeatedOnlyLoop(m, TypeFields(m), TRUE, <<LT>>)
    IN  IF r.raised # "" THEN r ELSE Returned(Append(r.text, GT))

(***************************************************************************)
(* Presence bits.                                                          *)
(***************************************************************************)
RECURSIVE Pow2(_)
Pow2(n) == IF n = 0 THEN 1 ELSE 2 * Pow2(n - 1)

WordBits == 32

\* bits & (1 << k) for a bits value of any width.  The values of the model
\* are below 2^(WordBits - 1): they have no bit at or above that position.
HasBit(b, k) == k < WordBits - 1 /\ (b \div Pow2(k)) % 2 = 1

RECURSIVE BitOr(_, _)
BitOr(x, y) ==
    IF x = 0 THEN y
    ELSE IF y = 0 THEN x
    ELSE (IF x % 2 = 1 \/ y % 2 = 1 THEN 1 ELSE 0) + 2 * BitOr(x \div 2, y \div 2)

\* hasbits_[i] of a Variant A record whose hasbits_ is one 32-bit word:
\* element 0 is the word, the elements past it are whatever follows the
\* array in memory
HasbitsElem(m, i) == IF i = 0 THEN m.word ELSE m.junk

\* Proto1MessagePrinter.to_string: bits |= hasbits[i].cast(uint) << (8*i)
\* for i in range(sizeof hasbits_)
RECURSIVE ReadHasbits(_, _, _)
ReadHasbits(m, i, acc) ==
    IF i >= WordBits \div 8 THEN acc
    ELSE ReadHasbits(m, i + 1, BitOr(acc, HasbitsElem(m, i) * Pow2(8 * i)))

(***************************************************************************)
(* Proto2MessagePrinter: sort_data_fields and sorted_printable_fields.     *)
(***************************************************************************)
None == -1

RECURSIVE SortDictLoop(_, _, _)
SortDictLoop(field_number_fields, i, acc) ==
    IF field_number_fields = <<>> THEN acc
    ELSE LET key == dict_key(Slice(Head(field_number_fields).name, 1, -11))
         IN  IF key \in DOMAIN acc.sort_dict
             THEN LET index == acc.sort_dict[key]
                  IN  SortDictLoop(Tail(field_number_fields), i + 1,
                         [acc EXCEPT !.dup_index =
                             IF @ = None \/ index < @ THEN index ELSE @])
             ELSE SortDictLoop(Tail(field_number_fields), i + 1,
                         [acc EXCEPT !.sort_dict = (key :> i) @@ @])

\* list.sort(key = ...): a stable sort
RECURSIVE SortByDict(_, _)
SortByDict(fields, sort_dict) ==
    IF fields = <<>> THEN <<>>
    ELSE LET n == Len(fields)
             x == fields[n]
             sorted == SortByDict(SubSeq(fields, 1, n - 1), sort_dict)
             k(f) == sort_dict[dict_key(f.name)]
             pos == Cardinality({j \in 1..(n - 1) : k(sorted[j]) <= k(x)})
         IN  SubSeq(sorted, 1, pos) \o <<x>> \o SubSeq(sorted, pos + 1, n - 1)

\* a variant that leaves the data fields in the order of the memory layout
sort_data_fields_unsorted(field_number_fields, data_fields) ==
    LET d == SortDictLoop(field_number_fields, 0,
                          [sort_dict |-> [key \in {} |-> 0], dup_index |-> None])
    IN  IF \E j \in 1..Len(data_fields) :
              dict_key(data_fields[j].name) \notin DOMAIN d.sort_dict
        THEN [raised |-> "KeyError", dup_index |-> None, data_fields |-> <<>>]
        ELSE [raised |-> "", dup_index |-> d.dup_index,
              data_fields |-> data_fields]

sort_data_fields(field_number_fields, data_fields) ==
    LET d == SortDictLoop(field_number_fields, 0,
                          [sort_dict |-> [key \in {} |-> 0], dup_index |-> None])
    IN  IF \E j \in 1..Len(data_fields) :
              dict_key(data_fields[j].name) \notin DOMAIN d.sort_dict
        THEN [raised |-> "KeyError", dup_index |-> None, data_fields |-> <<>>]
        ELSE [raised |-> "", dup_index |-> d.dup_index,
              data_fields |-> SortByDict(data_fields, d.sort_dict)]

\* the loop of sorted_printable_fields over self.type.fields()[1:]
PartitionFields(fields, acc) ==
    LET Hidden(f) == f.name = EXTENSIONS \/ StartsWith(f.name, <<"_">>)
        IsMarker(f) == ~Hidden(f) /\ field_number_field_re(f.name)
        IsData(f) == ~Hidden(f) /\ ~field_number_field_re(f.name) /\ ~f.static
    IN  [extension_field |->
            acc.extension_field \/ \E i \in 1..Len(fields) : fields[i].name = EXTENSIONS,
         field_number_fields |-> acc.field_number_fields \o SelectSeq(fields, IsMarker),
         data_fields |-> acc.data_fields \o SelectSeq(fields, IsData)]

sorted_printable_fields(m) ==
    LET p == PartitionFields(TypeFields(m),
                 [extension_field |-> FALSE, field_number_fields |-> <<>>,
                  data_fields |-> <<>>])
    IN  IF ~(Len(p.field_number_fields) >= Len(p.data_fields))
        THEN [raised |-> "AssertionError", extension_field |-> FALSE,
              dup_index |-> None, data_fields |-> <<>>]
        ELSE LET s == sort_data_fields(p.field_number_fields, p.data_fields)
             IN  [raised |-> s.raised, extension_field |-> p.extension_field,
                  dup_index |-> s.dup_index, data_fields |-> s.data_fields]

(***************************************************************************)
(* SpecMsg: one to_string call on one record.                              *)
(***************************************************************************)
Range(s) == {s[i] : i \in 1..Len(s)}

IdleRb == <<>>
IdleHash == <<>>

MsgIdle ==
    /\ msg = <<>> /\ result = <<>> /\ first = TRUE /\ bits = 0 /\ kBit = -1
    /\ dup_index = None /\ todo = <<>> /\ exc = ""

RbIdle == tree = IdleRb /\ rb = IdleRb

HashIdle == table = IdleHash /\ ht = IdleHash

IdleAux == <<>>
MapIdle == mp = IdleAux
CordIdle == cord = IdleAux /\ cp = IdleAux
ArrayIdle == arr = IdleAux /\ ap = IdleAux
RegIdle == vtype = IdleAux /\ reg = IdleAux
AuxIdle == MapIdle /\ CordIdle /\ ArrayIdle /\ RegIdle

RECURSIVE SumPow2(_)
SumPow2(S) ==
    IF S = {} THEN 0
    ELSE LET k == CHOOSE k \in S : TRUE IN Pow2(k) + SumPow2(S \ {k})

\* a record that holds `schema', whose optional fields in `present' are
\* set, with csize elements in its repeated field, laid out in declaration
\* order, every read of which succeeds
BaseRecord(variant, schema, present, csize) ==
    [variant |-> variant, schema |-> schema,
     word |-> SumPow2({BitIndex(variant, schema, id) : id \in present}),
     csize |-> csize,
     rev |-> FALSE, hasBitmap |-> TRUE, junk |-> 0, limit |-> 0,
     fail |-> NoFail, extPresent |-> FALSE, extCount |-> 0,
     badBit |-> "none", dropMarker |-> "none",
     lead |-> 0, high |-> 0, isize |-> 0]

\* the records that differ from m in one respect: the memory layout, the
\* display limit, a read that fails, an extension container, a defect of
\* the generated class
Variations(m) ==
    LET data == SelectSeq(m.schema, HasData)
        optional == SelectSeq(m.schema, IsOptional)
        p1 == m.variant = "proto1"
    IN  {[m EXCEPT !.rev = TRUE] : i \in IF Len(data) >= 2 THEN {1} ELSE {}}
        \cup {[m EXCEPT !.hasBitmap = FALSE] :
                 i \in IF optional = <<>> /\ data # <<>> THEN {1} ELSE {}}
        \cup {[m EXCEPT !.junk = 1] : i \in IF p1 THEN {1} ELSE {}}
        \cup {[m EXCEPT !.limit = l] : l \in 1..(m.csize - 1)}
        \cup {[m EXCEPT !.fail = FailBitmap]}
        \cup {[m EXCEPT !.fail = FailField(Cat(id).data)] : id \in Range(data)}
        \cup {[m EXCEPT !.fail = FailElem(i)] : i \in 0..(m.csize - 1)}
        \cup {[m EXCEPT !.extPresent = TRUE, !.extCount = n] :
                 n \in IF p1 THEN {} ELSE {1, 2}}
        \cup {[m EXCEPT !.extPresent = TRUE, !.extCount = 1, !.fail = FailExt] :
                 i \in IF p1 THEN {} ELSE {1}}
        \cup {[m EXCEPT !.badBit = id] : id \in IF p1 THEN Range(optional) ELSE {}}
        \cup {[m EXCEPT !.badBit = id, !.fail = FailBitmap] :
                 id \in IF p1 THEN Range(optional) ELSE {}}
        \cup {[m EXCEPT !.badBit = id, !.fail = FailField(Cat(other).data)] :
                 id \in IF p1 THEN Range(optional) ELSE {},
                 other \in Range(data)}
        \cup {[m EXCEPT !.dropMarker = id] : id \in IF p1 THEN {} ELSE Range(data)}

\* the records a to_string call is given
MsgInit ==
    /\ \E variant \in {"proto1", "proto2"} :
         \E schema \in Schemas(IF variant = "proto1" THEN Proto1Ids ELSE Proto2Ids) :
           \E present \in SUBSET Range(SelectSeq(schema, IsOptional)) :
             \E csize \in (IF "c" \in Range(schema) THEN 0..MaxElems ELSE {0}) :
               \E m \in {BaseRecord(variant, schema, present, csize)}
                        \cup Variations(BaseRecord(variant, schema, present, csize)) :
                  msg = m
    /\ pc = "start"
    /\ result = <<>> /\ first = TRUE /\ bits = 0 /\ kBit = -1
    /\ dup_index = None /\ todo = <<>> /\ exc = ""
    /\ yielded = <<>>
    /\ RbIdle /\ HashIdle /\ AuxIdle

Raise(e) ==
    /\ pc' = "raised"
    /\ exc' = e
    /\ UNCHANGED <<result, first, bits, kBit, dup_index, todo>>

Return(text) ==
    /\ pc' = "done"
    /\ result' = text
    /\ UNCHANGED <<first, bits, kBit, dup_index, todo, exc>>

\* Proto1MessagePrinter.to_string up to its loop
P1_Start ==
    /\ pc = "start" /\ msg.variant = "proto1"
    /\ IF ~has_field(msg, HASBITS)
       THEN LET r == to_string_repeated_only(msg)
            IN  IF r.raised # "" THEN Raise(r.raised) ELSE Return(r.text)
       ELSE IF msg.fail = FailBitmap
       THEN Return(<<LT, BareError, GT>>)
       ELSE /\ pc' = "loop"
            /\ result' = <<LT>>
            /\ first' = TRUE
            /\ bits' = ReadHasbits(msg, 0, 0)
            /\ todo' = TypeFields(msg)
            /\ UNCHANGED <<kBit, dup_index, exc>>
    /\ UNCHANGED <<msg, yielded, rbVars, hashVars, auxVars>>

\* what one pass of a record decoder's loop body leaves
Pass(text, isFirst) == [raised |-> "", text |-> text, first |-> isFirst]
PassRaised(e) == [raised |-> e, text |-> <<>>, first |-> FALSE]
Spaced(text, isFirst) == IF ~isFirst THEN Append(text, SP) ELSE text

\* a variant that passes over a field whose kHasBit_ constant is negative
P1_Body_drops_bad_bit(m, field, b, text, isFirst) ==
    LET name == Slice(field.name, 0, -1)
        kb == KHasBitLookup(m, HasBitPrefix \o name)
    IN  IF kb.none
        THEN LET t == repeated_field(m, field)
             IN  IF t.raised = "RuntimeError"
                 THEN Pass(Append(text, FieldError(name)), isFirst)
                 ELSE IF t.raised # "" THEN PassRaised(t.raised)
                 ELSE IF t.text # <<>>
                 THEN Pass(Spaced(text, isFirst) \o t.text, FALSE)
                 ELSE Pass(text, isFirst)
        ELSE IF kb.value >= 0 /\ HasBit(b, kb.value)
        THEN IF m.fail = FailField(field.name)
             THEN Pass(Append(Spaced(text, isFirst), FieldError(name)), isFirst)
             ELSE Pass(Append(Spaced(text, isFirst),
                              NameValue(name, FieldVal(field.name))), FALSE)
        ELSE Pass(text, isFirst)

\* the try statement of Proto1MessagePrinter.to_string for one field
P1_Body(m, field, b, text, isFirst) ==
    LET name == Slice(field.name, 0, -1)
        kb == KHasBitLookup(m, HasBitPrefix \o name)
    IN  IF kb.none
        THEN LET t == repeated_field(m, field)
             IN  IF t.raised = "RuntimeError"
                 THEN Pass(Append(text, FieldError(name)), isFirst)
                 ELSE IF t.raised # "" THEN PassRaised(t.raised)
                 ELSE IF t.text # <<>>
                 THEN Pass(Spaced(text, isFirst) \o t.text, FALSE)
                 ELSE Pass(text, isFirst)
        ELSE IF kb.value >= 0
        THEN IF HasBit(b, kb.value)
             THEN IF m.fail = FailField(field.name)
                  THEN Pass(Append(Spaced(text, isFirst), FieldError(name)), isFirst)
                  ELSE Pass(Append(Spaced(text, isFirst),
                                   NameValue(name, FieldVal(field.name))), FALSE)
             ELSE Pass(text, isFirst)
        ELSE Pass(Append(Spaced(text, isFirst), BadHasBit(field.name, kb.value)), FALSE)

\* one iteration of the loop of Proto1MessagePrinter.to_string
P1_Field ==
    /\ pc = "loop" /\ msg.variant = "proto1" /\ todo # <<>>
    /\ LET field == Head(todo)
       IN  IF \/ field.name = UNKNOWN_FIELDS
              \/ field.name = HASBITS
              \/ StartsWith(field.name, <<"_">>)
              \/ field.static
           THEN /\ todo' = Tail(todo)
                /\ UNCHANGED <<pc, result, first, exc>>
           ELSE LET r == P1_Body(msg, field, bits, result, first)
                IN  IF r.raised # ""
                    THEN /\ pc' = "raised" /\ exc' = r.raised
                         /\ UNCHANGED <<result, first, todo>>
                    ELSE /\ result' = r.text
                         /\ first' = r.first
                         /\ todo' = Tail(todo)
                         /\ UNCHANGED <<pc, exc>>
    /\ UNCHANGED <<msg, bits, kBit, dup_index, yielded, rbVars, hashVars, auxVars>>

\* return result + '>'
P1_Return ==
    /\ pc = "loop" /\ msg.variant = "proto1" /\ todo = <<>>
    /\ Return(Append(result, GT))
    /\ UNCHANGED <<msg, yielded, rbVars, hashVars, auxVars>>

\* Proto2MessagePrinter.to_string up to its loop.  The except clause
\* formats the error with '<<%GDB/Python runtime error: %s>>' % err, whose
\* %G conversion raises TypeError.
P2_Start ==
    /\ pc = "start" /\ msg.variant = "proto2"
    /\ IF ~has_field(msg, HAS_BITS2)
       THEN LET r == to_string_repeated_only(msg)
            IN  IF r.raised # "" THEN Raise(r.raised) ELSE Return(r.text)
       ELSE IF msg.fail = FailBitmap
       THEN Raise("TypeError")
       ELSE LET s == sorted_printable_fields(msg)
            IN  IF s.raised # "" THEN Raise(s.raised)
                ELSE IF s.extension_field /\ msg.fail = FailExt
                THEN Raise("TypeError")
                ELSE /\ pc' = "loop"
                     /\ result' = IF s.extension_field
                                  THEN <<LT, MessageSet(msg.extCount)>>
                                  ELSE <<LT>>
                     /\ first' = TRUE
                     /\ bits' = msg.word
                     /\ kBit' = -1
                     /\ dup_index' = s.dup_index
                     /\ todo' = s.data_fields
                     /\ exc' = exc
    /\ UNCHANGED <<msg, yielded, rbVars, hashVars, auxVars>>

\* a variant without the except clause: a failing read leaves to_string
P2_Body_no_handler(m, field, b, kb, text, isFirst) ==
    LET name == Slice(field.name, 0, -1)
    IN  IF HasBit(b, kb)
        THEN IF m.fail = FailField(field.name)
             THEN PassRaised("RuntimeError")
             ELSE Pass(Append(Spaced(text, isFirst),
                              NameValue(name, FieldVal(field.name))), FALSE)
        ELSE IF field.tag # ""
                /\ field.tag \in {"proto2::RepeatedField", "proto2::RepeatedPtrField"}
        THEN LET t == repeated_field(m, field)
             IN  IF t.raised # "" THEN PassRaised(t.raised)
                 ELSE IF t.text # <<>>
                 THEN Pass(Spaced(text, isFirst) \o t.text, FALSE)
                 ELSE Pass(text, isFirst)
        ELSE Pass(text, isFirst)

\* the try statement of Proto2MessagePrinter.to_string for one field
P2_Body(m, field, b, kb, text, isFirst) ==
    LET name == Slice(field.name, 0, -1)
    IN  IF HasBit(b, kb)
        THEN IF m.fail = FailField(field.name)
             THEN Pass(Append(Spaced(text, isFirst), FieldError(name)), isFirst)
             ELSE Pass(Append(Spaced(text, isFirst),
                              NameValue(name, FieldVal(field.name))), FALSE)
        ELSE IF field.tag # ""
                /\ field.tag \in {"proto2::RepeatedField", "proto2::RepeatedPtrField"}
        THEN LET t == repeated_field(m, field)
             IN  IF t.raised = "RuntimeError"
                 THEN Pass(Append(text, FieldError(name)), isFirst)
                 ELSE IF t.raised # "" THEN PassRaised(t.raised)
                 ELSE IF t.text # <<>>
                 THEN Pass(Spaced(text, isFirst) \o t.text, FALSE)
                 ELSE Pass(text, isFirst)
        ELSE Pass(text, isFirst)

\* one iteration of the loop of Proto2MessagePrinter.to_string
P2_Field ==
    /\ pc = "loop" /\ msg.variant = "proto2" /\ todo # <<>>
    /\ kBit' = kBit + 1
    /\ IF dup_index # None /\ kBit' >= dup_index
       THEN /\ pc' = "done"
            /\ result' = result \o <<SP, Remaining, GT>>
            /\ UNCHANGED <<first, todo, exc>>
       ELSE LET r == P2_Body(msg, Head(todo), bits, kBit', result, first)
            IN  IF r.raised # ""
                THEN /\ pc' = "raised" /\ exc' = r.raised
                     /\ UNCHANGED <<result, first, todo>>
                ELSE /\ result' = r.text
                     /\ first' = r.first
                     /\ todo' = Tail(todo)
                     /\ UNCHANGED <<pc, exc>>
    /\ UNCHANGED <<msg, bits, dup_index, yielded, rbVars, hashVars, auxVars>>

\* return result + '>'
P2_Return ==
    /\ pc = "loop" /\ msg.variant = "proto2" /\ todo = <<>>
    /\ Return(Append(result, GT))
    /\ UNCHANGED <<msg, yielded, rbVars, hashVars, auxVars>>

MsgNext == P1_Start \/ P1_Field \/ P1_Return \/ P2_Start \/ P2_Field \/ P2_Return

SpecMsg == MsgInit /\ [][MsgNext]_vars

(***************************************************************************)
(* What the claims about the record decoders speak of.                     *)
(***************************************************************************)
MsgDone == pc = "done"
MsgEnded == pc \in {"done", "raised"}

\* the name a field is printed under
Printed(id) == Slice(Cat(id).data, 0, -1)

\* the tokens of a text: its pieces other than '<', '>' and ' '
IsToken(piece) == piece[1] \notin {"lt", "gt", "sp"}
Tokens(text) == SelectSeq(text, IsToken)

Places(text, piece) == {i \in 1..Len(text) : text[i] = piece}

\* text shows something of data field id: a value, an element, an error
\* or an anomaly under its name
Mentions(text, id) ==
    \E i \in 1..Len(text) :
        /\ text[i][1] \in {"nv", "nverr", "err", "badbit"}
        /\ text[i][2] \in {Printed(id), Cat(id).data}

\* the case/underscore-insensitive key of an entry's marker
MarkerKey(id) == dict_key(Slice(Cat(id).marker, 1, -11))

\* the positions of the schema whose marker key occurs again later on
Collisions(m) ==
    {i \in 1..Len(m.schema) :
        \E j \in (i + 1)..Len(m.schema) : MarkerKey(m.schema[i]) = MarkerKey(m.schema[j])}

HasCollision(m) == m.variant = "proto2" /\ m.hasBitmap /\ Collisions(m) # {}

FirstCollision(m) == CHOOSE i \in Collisions(m) : \A j \in Collisions(m) : i <= j

\* optional field id is set in the record's presence bitmap: bit k of the
\* words m.word, m.high, where k counts the fields declared before it
IsPresent(m, id) ==
    LET k == m.lead + BitIndex(m.variant, m.schema, id)
    IN  IF k < WordBits THEN HasBit(m.word, k) ELSE HasBit(m.high, k - WordBits)

\* the data fields in the order a decoder walks them when no key collides:
\* the order of the type's fields (Variant A, and a record without bitmap),
\* the order of declaration of the markers (Variant B)
WalkOrder(m) ==
    IF m.variant = "proto2" /\ m.hasBitmap THEN SelectSeq(m.schema, HasData)
    ELSE IF m.rev THEN Reverse(SelectSeq(m.schema, HasData))
    ELSE SelectSeq(m.schema, HasData)

\* the number of elements of the repeated field that the limit lets through
Shown(m) == IF m.limit # 0 /\ m.limit < m.csize THEN m.limit ELSE m.csize

\* the tokens of the elements j.. of the repeated field id
RECURSIVE ElemTokens(_, _, _)
ElemTokens(m, id, j) ==
    IF j >= Shown(m) THEN <<>>
    ELSE IF m.fail = FailElem(j) THEN <<NameError(Printed(id))>>
    ELSE <<NameValue(Printed(id), ElemVal(j))>> \o ElemTokens(m, id, j + 1)

\* the tokens data field id is to contribute
ItemTokens(m, id) ==
    IF Cat(id).rep
    THEN IF m.fail = FailField(Cat(id).data)
         THEN <<FieldError(IF m.hasBitmap THEN Printed(id) ELSE Cat(id).data)>>
         ELSE ElemTokens(m, id, 0)
    ELSE IF m.badBit = id THEN <<BadHasBit(Cat(id).data, KHasBitValue(m, id))>>
    ELSE IF ~IsPresent(m, id) THEN <<>>
    ELSE IF m.fail = FailField(Cat(id).data) THEN <<FieldError(Printed(id))>>
    ELSE <<NameValue(Printed(id), FieldVal(Cat(id).data))>>

RECURSIVE FieldTokens(_, _)
FieldTokens(m, ids) ==
    IF ids = <<>> THEN <<>>
    ELSE ItemTokens(m, Head(ids)) \o FieldTokens(m, Tail(ids))

\* the tokens of the whole record
ExpectedTokens(m) ==
    (IF m.extPresent THEN <<MessageSet(m.extCount)>> ELSE <<>>)
    \o FieldTokens(m, WalkOrder(m))

\* no read fails and the generated class has no defect
FaultFree(m) ==
    /\ m.fail = NoFail /\ m.badBit = "none" /\ m.dropMarker = "none"
    /\ ~HasCollision(m)

\* token1 ' ' token2 ... between '<' and '>'
RECURSIVE SpaceSeparated(_)
SpaceSeparated(text) ==
    \/ text = <<>>
    \/ Len(text) = 1 /\ IsToken(text[1])
    \/ /\ Len(text) >= 3
       /\ IsToken(text[1]) /\ text[2] = SP
       /\ SpaceSeparated(SubSeq(text, 3, Len(text)))

WellFormedText(text) ==
    /\ Len(text) >= 2
    /\ text[1] = LT /\ text[Len(text)] = GT
    /\ SpaceSeparated(SubSeq(text, 2, Len(text) - 1))

(***************************************************************************)
(* C1  Variant B: when two markers have the same sort key, to_string shows *)
(* no data field at or after the first collision in schema order, and the  *)
(* text ends with exactly one 'remaining fields are unavailable' marker.   *)
(* The code compares the running data-field index with an index into the   *)
(* marker list: a marker without data field before the collision shifts    *)
(* the cut, and the statement fails.                                       *)
(***************************************************************************)
C1_DuplicateKeyTruncates ==
    (MsgDone /\ HasCollision(msg) /\ msg.fail = NoFail /\ msg.dropMarker = "none")
    => /\ \A k \in FirstCollision(msg)..Len(msg.schema) :
              HasData(msg.schema[k]) => ~Mentions(result, msg.schema[k])
       /\ Cardinality(Places(result, Remaining)) = 1
       /\ result[Len(result) - 1] = Remaining

(***************************************************************************)
(* C2  Both decoders: when no presence bit is set the text holds no        *)
(* 'name:value' token of an optional field, and every non-empty repeated   *)
(* field is rendered: all the elements the display limit lets through when *)
(* no read fails, the elements up to a failing one otherwise.  The records *)
(* are those C1, C5, C6 and C7 do not speak of: no duplicate key, the      *)
(* field itself and the bitmap readable.                                   *)
(***************************************************************************)
C2_ZeroBitsOnlyCollections ==
    (MsgDone /\ msg.word = 0)
    => /\ \A i \in 1..Len(result) :
              result[i][1] = "nv" =>
                 \E id \in Range(msg.schema) : Cat(id).rep /\ result[i][2] = Printed(id)
       /\ \A id \in Range(msg.schema) :
              (/\ Cat(id).rep /\ msg.csize >= 1
               /\ ~HasCollision(msg)
               /\ msg.fail \notin {FailBitmap, FailField(Cat(id).data)})
              => \A j \in 1..Len(ElemTokens(msg, id, 0)) :
                     Places(result, ElemTokens(msg, id, 0)[j]) # {}

C2_Witness ==
    /\ MsgDone /\ msg.word = 0 /\ msg.variant = "proto2" /\ msg.hasBitmap
    /\ \E id \in Range(msg.schema) : IsOptional(id)
    /\ msg.csize >= 2 /\ msg.fail = NoFail
    /\ Places(result, NameValue(<<"c">>, ElemVal(1))) # {}

(***************************************************************************)
(* C3  Variant A: a data field whose kHasBit_<name> constant is negative   *)
(* shows as '<field: bad kHasBit value: N>', whatever the bitmap holds and *)
(* whether or not the read of another field fails; the record's bitmap     *)
(* itself was read (C7 speaks of the bitmap that cannot be read).          *)
(***************************************************************************)
C3_NegativeHasBitShown ==
    (MsgDone /\ msg.variant = "proto1" /\ msg.badBit # "none"
     /\ msg.fail # FailBitmap)
    => Places(result, BadHasBit(Cat(msg.badBit).data,
                                KHasBitValue(msg, msg.badBit))) # {}

C3_Witness ==
    /\ MsgDone /\ msg.variant = "proto1" /\ msg.badBit = "ab"
    /\ msg.schema = <<"a", "ab", "c">> /\ msg.word = 0 /\ msg.fail = NoFail
    /\ result = <<LT, BadHasBit(<<"a", "b", "_">>, -2), GT>>

(***************************************************************************)
(* C4  as stated: a non-empty repeated field c shows as the one token      *)
(* 'c:[e1 ... en]'.  The code has no such token.                           *)
(***************************************************************************)
ListToken(name, n) == <<"nvlist", name, n>>

HasElements(m) == m.csize >= 1 /\ \E id \in Range(m.schema) : Cat(id).rep

RECURSIVE ElemText(_, _, _)
ElemText(name, j, n) ==
    IF j >= n THEN <<>>
    ELSE (IF j > 0 THEN <<SP>> ELSE <<>>)
         \o <<NameValue(name, ElemVal(j))>> \o ElemText(name, j + 1, n)

C5_FieldFailureIsLocal ==
    (MsgEnded /\ msg.fail[1] = "field")
    => /\ MsgDone
       /\ result[Len(result)] = GT
       /\ ~HasCollision(msg) =>
             /\ Tokens(result) = ExpectedTokens(msg)
             /\ \A id \in Range(msg.schema) :
                   (HasData(id) /\ msg.fail # FailField(Cat(id).data))
                   => ItemTokens(msg, id) = ItemTokens([msg EXCEPT !.fail = NoFail], id)

C5_Witness ==
    /\ MsgDone /\ msg.variant = "proto2" /\ msg.hasBitmap
    /\ msg.schema = <<"a", "ab", "c">> /\ msg.fail = FailField(<<"a", "b", "_">>)
    /\ msg.word = 3 /\ msg.csize = 1
    /\ Tokens(result) = <<NameValue(<<"a">>, 1), FieldError(<<"a", "b">>),
                          NameValue(<<"c">>, 1)>>

(***************************************************************************)
(* C6  Variant B: a class with a data field whose marker is missing (and   *)
(* so, it may be, fewer markers than data fields) still gets a text from   *)
(* to_string; no exception leaves it.  The assert of                       *)
(* sorted_printable_fields and the key lookup of the sort raise            *)
(* AssertionError and KeyError, which 'except RuntimeError' lets through.  *)
(***************************************************************************)
C6_SchemaDefectReturnsText ==
    (MsgEnded /\ msg.variant = "proto2" /\ msg.hasBitmap /\ msg.dropMarker # "none")
    => MsgDone

(***************************************************************************)
(* C7  Both decoders: when the presence bitmap (Variant B: or the count of *)
(* the extension container) cannot be read, to_string returns a text that  *)
(* carries the error; no exception leaves it.  Variant B's handler formats *)
(* the error with a string whose '%G' raises TypeError.                    *)
(***************************************************************************)
C7_UnreadableBitmapReturnsText ==
    (/\ MsgEnded /\ msg.hasBitmap
     /\ \/ msg.fail = FailBitmap
        \/ msg.fail = FailExt /\ msg.extPresent)
    => MsgDone /\ Places(result, BareError) # {}

(***************************************************************************)
(* C8  Both decoders: the text is '<', the tokens one space apart, '>':    *)
(* no space after '<' or before '>', and the extension-count token, when   *)
(* there is one, is the first token.  The code sets no space after the     *)
(* extension-count token, none before an error token of a repeated field,  *)
(* none after an error token that comes first, and one after '<' before    *)
(* the terminal marker.                                                    *)
(***************************************************************************)
C8_TokensOneSpaceApart ==
    MsgDone
    => /\ WellFormedText(result)
       /\ (msg.extPresent /\ msg.hasBitmap) => result[2] = MessageSet(msg.extCount)

(***************************************************************************)
(* RbtreeIterator: the walk over the nodes of a std::_Rb_tree.             *)
(*                                                                         *)
(* A tree of n nodes holds the keys 1..n; a node is named by its key, the  *)
(* header by Header, the null pointer by Nil.  The trees are the binary    *)
(* search trees that inserting the keys in some order gives: every shape.  *)
(***************************************************************************)
\* most nodes in an inspected tree
MaxNodes == 5

Nil == 0
Header == MaxNodes + 2

Perms(n) == {p \in [1..n -> 1..n] : \A i, j \in 1..n : p[i] = p[j] => i = j}

Below(s, k) == SelectSeq(s, LAMBDA x : x < k)
Above(s, k) == SelectSeq(s, LAMBDA x : x > k)
FirstOrNil(s) == IF s = <<>> THEN Nil ELSE Head(s)

\* the nodes of the tree whose keys come in insertion order s, under par
RECURSIVE Links(_, _)
Links(s, par) ==
    IF s = <<>> THEN {}
    ELSE LET k == Head(s)
             lo == Below(Tail(s), k)
             hi == Above(Tail(s), k)
         IN  {[node |-> k, left |-> FirstOrNil(lo), right |-> FirstOrNil(hi),
               parent |-> par]}
             \cup Links(lo, k) \cup Links(hi, k)

\* the tree in memory: _M_node_count, the header's links, the nodes' links
BuildTree(s) ==
    LET n == Len(s)
        links == Links(s, Header)
    IN  [size |-> n,
         header |-> IF n = 0
                    THEN [left |-> Header, right |-> Header, parent |-> Nil]
                    ELSE [left |-> 1, right |-> n, parent |-> Head(s)],
         nodes |-> [k \in 1..n |-> CHOOSE r \in links : r.node = k]]

M_left(t, p) == IF p = Header THEN t.header.left ELSE t.nodes[p].left
M_right(t, p) == IF p = Header THEN t.header.right ELSE t.nodes[p].right
M_parent(t, p) == IF p = Header THEN t.header.parent ELSE t.nodes[p].parent

\* while node.dereference()['_M_left']: node = node.dereference()['_M_left']
RECURSIVE DescendLeft(_, _)
DescendLeft(t, node) ==
    IF M_left(t, node) # Nil THEN DescendLeft(t, M_left(t, node)) ELSE node

\* while node == parent.dereference()['_M_right']: node, parent = parent, ...
RECURSIVE ClimbRight(_, _, _)
ClimbRight(t, node, parent) ==
    IF node = M_right(t, parent)
    THEN ClimbRight(t, parent, M_parent(t, parent))
    ELSE [node |-> node, parent |-> parent]

\* a variant that steps to the parent without the climb
NextNode_no_climb(t, node) ==
    IF M_right(t, node) # Nil
    THEN DescendLeft(t, M_right(t, node))
    ELSE M_parent(t, node)

\* "Compute the next node." of RbtreeIterator.next
NextNode(t, node) ==
    IF M_right(t, node) # Nil
    THEN DescendLeft(t, M_right(t, node))
    ELSE LET up == ClimbRight(t, node, M_parent(t, node))
         IN  IF M_right(t, up.node) # up.parent THEN up.parent ELSE up.node

\* the reads of node links made by "Compute the next node.": the tests of
\* the conditions and the assignments, one read for each dereference
RECURSIVE DescendLeftReads(_, _)
DescendLeftReads(t, node) ==
    IF M_left(t, node) # Nil THEN 2 + DescendLeftReads(t, M_left(t, node)) ELSE 1

RECURSIVE ClimbRightReads(_, _, _)
ClimbRightReads(t, node, parent) ==
    IF node = M_right(t, parent)
    THEN 2 + ClimbRightReads(t, parent, M_parent(t, parent))
    ELSE 1

NextNodeReads(t, node) ==
    IF M_right(t, node) # Nil
    THEN 2 + DescendLeftReads(t, M_right(t, node))
    ELSE 2 + ClimbRightReads(t, node, M_parent(t, node)) + 1

RbInit ==
    /\ \E n \in 0..MaxNodes : \E p \in Perms(n) : tree = BuildTree(p)
    /\ rb = [pc |-> "new", size |-> 0, node |-> Nil, count |-> 0,
             reads |-> 0, taken |-> 0]
    /\ yielded = <<>>
    /\ pc = "idle" /\ MsgIdle /\ HashIdle /\ AuxIdle

\* RbtreeIterator.__init__
Rb_Init ==
    /\ rb.pc = "new"
    /\ rb' = [pc |-> "ready", size |-> tree.size,
              node |-> M_left(tree, Header), count |-> 0,
              reads |-> 0, taken |-> 0]
    /\ UNCHANGED <<tree, yielded, msgVars, hashVars, auxVars>>

\* RbtreeIterator.next on iterator `it': the iterator it leaves, with the
\* node returned in `result' or `stop' set for StopIteration.  reads is
\* the number of reads of node links so far, taken its value when the
\* last result was taken (result = self.node).
RbtreeIterator_next(t, it) ==
    IF it.count = it.size
    THEN [it |-> it, stop |-> TRUE, result |-> Nil]
    ELSE [it |-> [it EXCEPT !.count = it.count + 1,
                            !.node = IF it.count + 1 < it.size
                                     THEN NextNode(t, it.node)
                                     ELSE it.node,
                            !.taken = it.reads,
                            !.reads = IF it.count + 1 < it.size
                                      THEN it.reads + NextNodeReads(t, it.node)
                                      ELSE it.reads],
          stop |-> FALSE, result |-> it.node]

\* RbtreeIterator.next
Rb_Next ==
    /\ rb.pc = "ready"
    /\ LET r == RbtreeIterator_next(tree, rb)
       IN  IF r.stop
           THEN /\ rb' = [rb EXCEPT !.pc = "stopped"]
                /\ UNCHANGED yielded
           ELSE /\ rb' = r.it
                /\ yielded' = Append(yielded, r.result)
    /\ UNCHANGED <<tree, msgVars, hashVars, auxVars>>

RbNext == Rb_Init \/ Rb_Next

SpecRb == RbInit /\ [][RbNext]_vars

(***************************************************************************)
(* C9  RbtreeIterator, on a well-formed tree whose _M_node_count N is the  *)
(* number of its nodes: the iterator yields N nodes, each node once, in    *)
(* ascending order of key; at every moment what it has yielded is the      *)
(* first keys in order.                                                    *)
(***************************************************************************)
C9_RbtreeInOrder ==
    /\ Len(yielded) <= tree.size
    /\ \A i \in 1..Len(yielded) : yielded[i] = i
    /\ rb.pc = "stopped" => Len(yielded) = tree.size

C9_Witness ==
    /\ rb.pc = "stopped" /\ tree.size = 4
    /\ tree.header.parent = 4 /\ tree.nodes[1].right = 3 /\ tree.nodes[3].left = 2
    /\ yielded = <<1, 2, 3, 4>>

(***************************************************************************)
(* _HashTableIterator (__gnu_cxx::hashtable) and Tr1HashtableIterator      *)
(* (std::tr1 hashtable): the walk over the buckets' chains.                *)
(*                                                                         *)
(* A table of n elements holds the values 1..n; a chain node is named by   *)
(* its value and the null pointer by Nil.  The bucket array of the tr1     *)
(* table ends, as libstdc++ builds it, with one more entry that is not     *)
(* null: Sentinel.                                                         *)
(***************************************************************************)
\* most buckets of an inspected table
MaxBuckets == 3
\* most elements of an inspected table
MaxChained == 3

Sentinel == MaxChained + 1
False == -1

\* the values that `assign' puts in bucket b, in ascending order
RECURSIVE ChainOf(_, _, _, _)
ChainOf(assign, b, v, n) ==
    IF v > n THEN <<>>
    ELSE (IF assign[v] = b THEN <<v>> ELSE <<>>) \o ChainOf(assign, b, v + 1, n)

\* no chain of the table ends in a link back into the chain
NoCycle == [bucket |-> 0, to |-> 0]

\* the table in memory: the declared element count and the chains; the
\* last node of chain cycle.bucket links to the node at cycle.to of it
BuildTable(kind, nb, n, assign, desc) ==
    [kind |-> kind, size |-> n,
     chains |-> [b \in 1..nb |->
                   IF desc THEN Reverse(ChainOf(assign, b - 1, 1, n))
                   ELSE ChainOf(assign, b - 1, 1, n)],
     cycle |-> NoCycle]

NBuckets(t) == Len(t.chains)

\* bucket b (from 0) and position i (from 0) of the node of value v
BucketOf(t, v) == CHOOSE b \in 0..(NBuckets(t) - 1) : v \in Range(t.chains[b + 1])
PosOf(t, v) == IndexOf(t.chains[BucketOf(t, v) + 1], v) - 1

\* v[b], bucket[0]: the head of the chain of bucket b
BucketHead(t, b) ==
    IF b >= NBuckets(t) THEN Sentinel
    ELSE IF t.chains[b + 1] = <<>> THEN Nil
    ELSE t.chains[b + 1][1]

\* xl['_M_next'], node.dereference()['_M_next']
M_next(t, v) ==
    IF v = Sentinel THEN Nil
    ELSE LET chain == t.chains[BucketOf(t, v) + 1]
             i == PosOf(t, v) + 1
         IN  IF i < Len(chain) THEN chain[i + 1]
             ELSE IF t.cycle.bucket = BucketOf(t, v) + 1 THEN chain[t.cycle.to]
             ELSE Nil

\* the first loop of _HashTableIterator.next: pass over empty buckets
RECURSIVE SkipEmpty(_, _)
SkipEmpty(t, b) ==
    IF b < NBuckets(t) /\ BucketHead(t, b) = Nil THEN SkipEmpty(t, b + 1) ELSE b

\* the second loop: listpos steps along the chain; Nil when the chain ends
RECURSIVE WalkChain(_, _, _, _)
WalkChain(t, xl, lpos, listpos) ==
    IF lpos < listpos
    THEN IF M_next(t, xl) = Nil THEN Nil
         ELSE WalkChain(t, M_next(t, xl), lpos + 1, listpos)
    ELSE xl

\* the reads of xl['_M_next'] in the second loop
RECURSIVE WalkChainReads(_, _, _, _)
WalkChainReads(t, xl, lpos, listpos) ==
    IF lpos < listpos
    THEN IF M_next(t, xl) = Nil THEN 1
         ELSE 1 + WalkChainReads(t, M_next(t, xl), lpos + 1, listpos)
    ELSE 0

\* a variant that stops at the end of a chain and leaves the buckets
\* that follow
HashTable_next_one_chain(t, it) ==
    IF it.size <= it.count \/ it.nbuckets <= it.bucket
    THEN [it EXCEPT !.stop = TRUE]
    ELSE LET b == SkipEmpty(t, it.bucket)
             xl == WalkChain(t, BucketHead(t, b), 0, it.listpos)
         IN  IF it.nbuckets <= b \/ xl = Nil
             THEN [it EXCEPT !.stop = TRUE, !.bucket = b]
             ELSE [it EXCEPT !.bucket = b,
                             !.count = it.count + 1,
                             !.listpos = it.listpos + 1,
                             !.val = xl]

\* _HashTableIterator.next on iterator `it': the iterator it leaves, with
\* the value returned in `val' or `stop' set for StopIteration.  reads is
\* the number of reads of bucket slots and node links so far, taken its
\* value when the last element was taken (return xl['_M_val']).
RECURSIVE HashTable_next(_, _)
HashTable_next(t, it) ==
    IF it.size <= it.count \/ it.nbuckets <= it.bucket
    THEN [it EXCEPT !.stop = TRUE]
    ELSE LET b == SkipEmpty(t, it.bucket)
         IN  IF it.nbuckets <= b
             THEN [it EXCEPT !.stop = TRUE, !.bucket = b,
                             !.reads = it.reads + (b - it.bucket)]
             ELSE LET xl == WalkChain(t, BucketHead(t, b), 0, it.listpos)
                      reads == it.reads + (b - it.bucket) + 2
                               + WalkChainReads(t, BucketHead(t, b), 0, it.listpos)
                  IN  IF xl = Nil
                      THEN HashTable_next(t, [it EXCEPT !.listpos = 0,
                                                        !.bucket = b + 1,
                                                        !.reads = reads])
                      ELSE [it EXCEPT !.bucket = b,
                                      !.count = it.count + 1,
                                      !.listpos = it.listpos + 1,
                                      !.val = xl,
                                      !.reads = reads, !.taken = reads]

\* the loop of Tr1HashtableIterator.update: on to the next bucket while
\* the node is null
RECURSIVE NextBucket(_, _, _)
NextBucket(t, bucket, node) ==
    IF node = Nil
    THEN NextBucket(t, bucket + 1, BucketHead(t, bucket + 1))
    ELSE [bucket |-> bucket, node |-> node]

\* a variant without the loop over the buckets
update_no_loop(t, it) ==
    IF it.count = it.n_buckets
    THEN [it EXCEPT !.node = False]
    ELSE [it EXCEPT !.count = it.count + 1]

\* Tr1HashtableIterator.update; each pass of the loop reads one bucket slot
update(t, it) ==
    LET at == NextBucket(t, it.bucket, it.node)
        reads == it.reads + (at.bucket - it.bucket)
    IN  IF it.count = it.n_buckets
        THEN [it EXCEPT !.bucket = at.bucket, !.node = False, !.reads = reads]
        ELSE [it EXCEPT !.bucket = at.bucket, !.node = at.node,
                        !.count = it.count + 1, !.reads = reads]

HashInit ==
    /\ \E kind \in {"hashtable", "tr1"} :
         \E nb \in 1..MaxBuckets :
           \E n \in 0..MaxChained :
             \E assign \in [1..n -> 0..(nb - 1)] :
               \E desc \in BOOLEAN :
                  table = BuildTable(kind, nb, n, assign, desc)
    /\ ht = [pc |-> "new"]
    /\ yielded = <<>>
    /\ pc = "idle" /\ MsgIdle /\ RbIdle /\ AuxIdle

\* _HashTableIterator(val): the iterator after __init__
HashTableIterator(t) ==
    [pc |-> "ready", size |-> t.size, nbuckets |-> NBuckets(t),
     count |-> 0, bucket |-> 0, listpos |-> 0,
     stop |-> FALSE, val |-> Nil, reads |-> 0, taken |-> 0]

\* _HashTableIterator.__init__
HashTable_Init ==
    /\ ht.pc = "new" /\ table.kind = "hashtable"
    /\ ht' = HashTableIterator(table)
    /\ UNCHANGED <<table, yielded, msgVars, rbVars, auxVars>>

\* _HashTableIterator.next
HashTable_Next ==
    /\ ht.pc = "ready" /\ table.kind = "hashtable"
    /\ LET it == HashTable_next(table, ht)
       IN  IF it.stop
           THEN /\ ht' = [it EXCEPT !.pc = "stopped"]
                /\ UNCHANGED yielded
           ELSE /\ ht' = it
                /\ yielded' = Append(yielded, it.val)
    /\ UNCHANGED <<table, msgVars, rbVars, auxVars>>

\* Tr1HashtableIterator(hash): the iterator after __init__
Tr1HashtableIterator(t) ==
    IF t.size = 0
    THEN [pc |-> "ready", count |-> 0, n_buckets |-> t.size,
          bucket |-> 0, node |-> False, reads |-> 0, taken |-> 0]
    ELSE update(t, [pc |-> "ready", count |-> 0, n_buckets |-> t.size,
                    bucket |-> 0, node |-> BucketHead(t, 0),
                    reads |-> 1, taken |-> 0])

\* Tr1HashtableIterator.__init__
Tr1_Init ==
    /\ ht.pc = "new" /\ table.kind = "tr1"
    /\ ht' = Tr1HashtableIterator(table)
    /\ UNCHANGED <<table, yielded, msgVars, rbVars, auxVars>>

\* Tr1HashtableIterator.next on iterator `it': the iterator it leaves, with
\* the node whose value is returned in `result' or `stop' set for
\* StopIteration
Tr1HashtableIterator_next(t, it) ==
    IF it.node \in {False, Nil}
    THEN [it |-> it, stop |-> TRUE, result |-> Nil]
    ELSE [it |-> update(t, [it EXCEPT !.node = M_next(t, it.node),
                                      !.taken = it.reads,
                                      !.reads = it.reads + 1]),
          stop |-> FALSE, result |-> it.node]

\* Tr1HashtableIterator.next
Tr1_Next ==
    /\ ht.pc = "ready" /\ table.kind = "tr1"
    /\ LET r == Tr1HashtableIterator_next(table, ht)
       IN  IF r.stop
           THEN /\ ht' = [ht EXCEPT !.pc = "stopped"]
                /\ UNCHANGED yielded
           ELSE /\ ht' = r.it
                /\ yielded' = Append(yielded, r.result)
    /\ UNCHANGED <<table, msgVars, rbVars, auxVars>>

HashNext == HashTable_Init \/ HashTable_Next \/ Tr1_Init \/ Tr1_Next

SpecHash == HashInit /\ [][HashNext]_vars

\* the elements in the order of the buckets and of each chain
RECURSIVE ChainsFrom(_, _)
ChainsFrom(t, b) ==
    IF b > NBuckets(t) THEN <<>> ELSE t.chains[b] \o ChainsFrom(t, b + 1)

(***************************************************************************)
(* C10  _HashTableIterator and Tr1HashtableIterator, on a table whose      *)
(* declared element count N is the number of its elements: the iterator    *)
(* yields N elements, each element once, however the elements lie in the   *)
(* buckets (all in one, empty buckets between, the last bucket filled);    *)
(* at every moment what it has yielded is a beginning of the chains in     *)
(* bucket order, and no sentinel or null is yielded.                       *)
(***************************************************************************)
C10_HashIteratorsYieldAll ==
    /\ Len(yielded) <= table.size
    /\ yielded = SubSeq(ChainsFrom(table, 1), 1, Len(yielded))
    /\ ht.pc = "stopped" =>
          /\ Len(yielded) = table.size
          /\ Range(yielded) = 1..table.size

C10_Witness ==
    /\ ht.pc = "stopped" /\ table.kind = "hashtable"
    /\ table.chains = <<<<>>, <<3, 1>>, <<2>>>>
    /\ yielded = <<3, 1, 2>>

(***************************************************************************)
(* StdMapPrinter: the children of a std::map.  The tree is that of         *)
(* RbtreeIterator, and the node of key k holds the pair (k, vals[k]).      *)
(***************************************************************************)
\* the mapped values
MapValues == {"a", "b"}
\* most calls of children() on one printer
MaxCalls == 2

\* a child: ('[%d]' % count, item), the item the pair's first or second
Child(count, item) == <<count, item>>
First(k) == <<"first", k, "">>
Second(v) == <<"second", 0, v>>

MapInit ==
    /\ \E n \in 0..MaxNodes : \E p \in Perms(n) : \E v \in [1..n -> MapValues] :
          tree = [size |-> n, header |-> BuildTree(p).header,
                  nodes |-> BuildTree(p).nodes, vals |-> v]
    /\ rb = [pc |-> "new", size |-> 0, node |-> Nil, count |-> 0,
             reads |-> 0, taken |-> 0]
    /\ mp = [pc |-> "new", count |-> 0, pair |-> Nil, calls |-> 0]
    /\ yielded = <<>>
    /\ pc = "idle" /\ MsgIdle /\ HashIdle /\ CordIdle /\ ArrayIdle /\ RegIdle

\* StdMapPrinter.__init__
Map_Init ==
    /\ mp.pc = "new"
    /\ rb' = [pc |-> "ready", size |-> tree.size,
              node |-> M_left(tree, Header), count |-> 0,
              reads |-> 0, taken |-> 0]
    /\ mp' = [mp EXCEPT !.pc = "made"]
    /\ UNCHANGED <<tree, yielded, msgVars, hashVars, cordVars, arrVars, regVars>>

\* StdMapPrinter.children: a new _iter over the printer's RbtreeIterator
Map_children ==
    /\ mp.pc \in {"made", "stopped"} /\ mp.calls < MaxCalls
    /\ mp' = [pc |-> "iter", count |-> 0, pair |-> Nil, calls |-> mp.calls + 1]
    /\ yielded' = <<>>
    /\ UNCHANGED <<tree, rb, msgVars, hashVars, cordVars, arrVars, regVars>>

\* a variant that labels a pair's two children alike
Map_iter_next_one_label(t, it, m) ==
    IF m.count % 2 = 0
    THEN LET r == RbtreeIterator_next(t, it)
         IN  IF r.stop
             THEN [stop |-> TRUE, it |-> r.it, m |-> m, child |-> <<>>]
             ELSE [stop |-> FALSE, it |-> r.it,
                   m |-> [m EXCEPT !.pair = r.result, !.count = m.count + 1],
                   child |-> Child(m.count \div 2, First(r.result))]
    ELSE [stop |-> FALSE, it |-> it,
          m |-> [m EXCEPT !.count = m.count + 1],
          child |-> Child(m.count \div 2, Second(t.vals[m.pair]))]

\* StdMapPrinter._iter.next on _iter m over RbtreeIterator it
Map_iter_next(t, it, m) ==
    IF m.count % 2 = 0
    THEN LET r == RbtreeIterator_next(t, it)
         IN  IF r.stop
             THEN [stop |-> TRUE, it |-> r.it, m |-> m, child |-> <<>>]
             ELSE [stop |-> FALSE, it |-> r.it,
                   m |-> [m EXCEPT !.pair = r.result, !.count = m.count + 1],
                   child |-> Child(m.count, First(r.result))]
    ELSE [stop |-> FALSE, it |-> it,
          m |-> [m EXCEPT !.count = m.count + 1],
          child |-> Child(m.count, Second(t.vals[m.pair]))]

\* StdMapPrinter._iter.next
Map_Next ==
    /\ mp.pc = "iter"
    /\ LET r == Map_iter_next(tree, rb, mp)
       IN  /\ rb' = r.it
           /\ IF r.stop
              THEN mp' = [r.m EXCEPT !.pc = "stopped"] /\ UNCHANGED yielded
              ELSE mp' = r.m /\ yielded' = Append(yielded, r.child)
    /\ UNCHANGED <<tree, msgVars, hashVars, cordVars, arrVars, regVars>>

MapNext == Map_Init \/ Map_children \/ Map_Next

SpecMap == MapInit /\ [][MapNext]_vars

\* the first traversal of the children has come to its end
MapTraversed == mp.pc = "stopped" /\ mp.calls = 1

(***************************************************************************)
(* C11  as stated: a map of N entries gives N labelled entries [0]..[N-1], *)
(* the entry [i] pairing the i-th smallest key with its value.             *)
(***************************************************************************)
Pair(k, v) == <<"pair", k, v>>

C11_MapEntryPerPair ==
    MapTraversed
    => /\ Len(yielded) = tree.size
       /\ \A i \in 1..Len(yielded) :
             yielded[i] = Child(i - 1, Pair(i, tree.vals[i]))

(***************************************************************************)
(* C11  as the code has it: a map of N entries gives 2N labelled children  *)
(* [0]..[2N-1]; the child [2i] is the i-th smallest key and the child      *)
(* [2i+1] is that key's own value (i from 0), whatever the shape of the    *)
(* tree.                                                                   *)
(***************************************************************************)
C11_MapChildPerKeyAndValue ==
    /\ mp.calls = 1 =>
          \A j \in 1..Len(yielded) :
             yielded[j] = IF j % 2 = 1
                          THEN Child(j - 1, First((j + 1) \div 2))
                          ELSE Child(j - 1, Second(tree.vals[j \div 2]))
    /\ MapTraversed => Len(yielded) = 2 * tree.size

C11_Witness ==
    /\ MapTraversed /\ tree.size = 3 /\ tree.header.parent = 3
    /\ tree.nodes[1].right = 2
    /\ tree.vals = <<"a", "b", "a">>
    /\ yielded = <<Child(0, First(1)), Child(1, Second("a")),
                   Child(2, First(2)), Child(3, Second("b")),
                   Child(4, First(3)), Child(5, Second("a"))>>

(***************************************************************************)
(* CordPrinter: the text of a Cord.                                        *)
(*                                                                         *)
(* A rope is a leaf with a spine of inner nodes over it: node i of the     *)
(* spine is a Concat of node i-1 and a leaf (on either side), a Concat of  *)
(* node i-1 with itself (a shared subtree), or a Substring of node i-1.    *)
(* A corrupted rope has the link of one inner node to the node below bent  *)
(* to a node at or above it (a cycle).  Data are bytes; text is            *)
(* characters.                                                             *)
(***************************************************************************)
\* most inner nodes above the leaf of an inspected rope
MaxSpine == 2
\* largest display limit set
MaxLimit == 3
\* depth of calls at which Python raises "maximum recursion depth exceeded"
\* (a RuntimeError); above the depth of every rope without cycle
RecursionLimit == MaxSpine + 2

TAG_CONCAT == 0
TAG_FUNCTION == 1
TAG_SUBSTRING == 2
TAG_FLAT == 3
OLD_TAG_FLAT == 4

\* the character of a byte in ISO-8859-1
Latin1(b) ==
    CASE b = 97 -> "a" [] b = 98 -> "b" [] b = 99 -> "c" [] b = 233 -> "E"
      [] OTHER -> "?"

\* data.string("ISO-8859-1", "ignore", length)
string(data, length) ==
    [i \in 1..(IF length < Len(data) THEN length ELSE Len(data)) |-> Latin1(data[i])]

\* '%d' % tag, for the tags of one digit
DigitChar(n) ==
    CASE n = 0 -> "0" [] n = 1 -> "1" [] n = 2 -> "2" [] n = 3 -> "3"
      [] n = 4 -> "4" [] n = 5 -> "5" [] OTHER -> "#"

CordFunction == <<"<", "c", "o", "r", "d", " ", "f", "u", "n", "c", "t", "i", "o", "n", ">">>
UnknownTag(tag) ==
    <<"<", "u", "n", "k", "n", "o", "w", "n", " ", "t", "a", "g", ":", " ">> \o <<DigitChar(tag)>> \o <<">">>
Ellipsis == <<" ", ".", ".", ".">>

NoRef == <<"null", 0>>
SpineRef(i) == <<"spine", i>>
SideRef(k) == <<"side", k>>

\* a CordRep in memory
Rep(tag, length, data, left, right, child, start) ==
    [tag |-> tag, length |-> length, data |-> data,
     left |-> left, right |-> right, child |-> child, start |-> start]
Flat(tag, data, length) == Rep(tag, length, data, NoRef, NoRef, NoRef, 0)

\* the leaves a rope is built over, and the leaves a Concat adds
BaseLeaves ==
    {Flat(TAG_FLAT, <<97, 98>>, 2), Flat(OLD_TAG_FLAT, <<233, 99>>, 2),
     Flat(OLD_TAG_FLAT + 1, <<97, 98, 99>>, 1), Flat(TAG_FUNCTION, <<>>, 0)}
SideLeaves == <<Flat(OLD_TAG_FLAT, <<99>>, 1), Flat(TAG_FUNCTION, <<>>, 0)>>

\* what a node of the spine is
Ops ==
    [kind : {"concatL", "concatR"}, side : 1..Len(SideLeaves), start : {0}, length : {0}]
    \cup [kind : {"concatSelf"}, side : {1}, start : {0}, length : {0}]
    \cup [kind : {"substring"}, side : {1}, start : {0, 1}, length : {1, 3}]

RECURSIVE OpSeqs(_)
OpSeqs(n) ==
    IF n = 0 THEN {<<>>}
    ELSE OpSeqs(n - 1) \cup {Append(o, op) : o \in {q \in OpSeqs(n - 1) : Len(q) = n - 1}, op \in Ops}

NoLoop == [from |-> 0, to |-> 0]

\* the link of spine node i to the node below it
Below1(m, i) == IF m.loop.from = i THEN SpineRef(m.loop.to) ELSE SpineRef(i - 1)

\* the length field of spine node i of a rope that is what it should be
RECURSIVE RepLength(_, _)
RepLength(m, i) ==
    IF i = 0 THEN m.leaf.length
    ELSE LET op == m.ops[i]
         IN  CASE op.kind = "substring" -> op.length
               [] op.kind = "concatSelf" -> 2 * RepLength(m, i - 1)
               [] OTHER -> RepLength(m, i - 1) + SideLeaves[op.side].length

\* rep.dereference(): the CordRep a pointer leads to
Deref(m, ref) ==
    IF ref[1] = "side" THEN SideLeaves[ref[2]]
    ELSE IF ref[2] = 0 THEN m.leaf
    ELSE LET i == ref[2]
             op == m.ops[i]
         IN  CASE op.kind = "substring" ->
                    Rep(TAG_SUBSTRING, op.length, <<>>, NoRef, NoRef, Below1(m, i), op.start)
               [] op.kind = "concatL" ->
                    Rep(TAG_CONCAT, RepLength(m, i), <<>>, SideRef(op.side), Below1(m, i), NoRef, 0)
               [] op.kind = "concatR" ->
                    Rep(TAG_CONCAT, RepLength(m, i), <<>>, Below1(m, i), SideRef(op.side), NoRef, 0)
               [] OTHER ->
                    Rep(TAG_CONCAT, RepLength(m, i), <<>>, Below1(m, i), SpineRef(i - 1), NoRef, 0)

RootRef(m) == SpineRef(Len(m.ops))

\* a variant that puts the right part first
print_rep_concat_swapped(left, right) == right \o left

\* left + right
print_rep_concat(left, right) == left \o right

\* a variant that cuts by the child's length field
print_rep_substring_child_length(s, start, length, child) ==
    Slice(s, start, start + child.length)

\* s[int(start) : int(start + length)]
print_rep_substring(s, start, length, child) == Slice(s, start, start + length)

\* CordPrinter.print_rep on the CordRep at ref, `depth' calls deep
RECURSIVE print_rep(_, _, _, _)
print_rep(m, has_contents, ref, depth) ==
    IF depth >= RecursionLimit THEN Raised("RuntimeError")
    ELSE LET rep == Deref(m, ref)
             length == rep.length
             tag == rep.tag
         IN  IF \/ has_contents /\ tag >= TAG_FLAT
                \/ ~has_contents /\ tag >= OLD_TAG_FLAT
             THEN Returned(string(rep.data, length))
             ELSE IF tag = TAG_CONCAT
             THEN LET left == print_rep(m, has_contents, rep.left, depth + 1)
                  IN  IF left.raised # "" THEN left
                      ELSE LET right == print_rep(m, has_contents, rep.right, depth + 1)
                           IN  IF right.raised # "" THEN right
                               ELSE Returned(print_rep_concat(left.text, right.text))
             ELSE IF tag = TAG_SUBSTRING
             THEN LET t == print_rep(m, has_contents, rep.child, depth + 1)
                  IN  IF t.raised # "" THEN t
                      ELSE Returned(print_rep_substring(t.text, rep.start, length,
                                                        Deref(m, rep.child)))
             ELSE IF tag = TAG_FUNCTION
             THEN Returned(CordFunction)
             ELSE Returned(UnknownTag(tag))

\* is_tree: data[N] > N
is_tree(m) == m.dataN > m.N

\* a variant that cuts a text of just `limit' characters too
truncate_at_limit(body, limit) ==
    IF limit # 0 /\ limit <= Len(body)
    THEN SubSeq(body, 1, limit) \o Ellipsis
    ELSE body

\* if limit and limit < len(body): body = body[0:limit] + " ..."
truncate(body, limit) ==
    IF limit # 0 /\ limit < Len(body)
    THEN Slice(body, 0, limit) \o Ellipsis
    ELSE body

\* CordPrinter.to_string: what it returns, or the exception that leaves it
CordPrinter_to_string(m, has_contents) ==
    IF has_contents /\ ~is_tree(m)
    THEN [raised |-> "", length |-> m.dataN, refcount |-> 1,
          body |-> truncate(string(m.data, m.dataN), m.limit)]
    ELSE LET body == print_rep(m, has_contents, RootRef(m), 0)
             rep == Deref(m, RootRef(m))
         IN  IF body.raised # ""
             THEN [raised |-> body.raised, length |-> 0, refcount |-> 0, body |-> <<>>]
             ELSE [raised |-> "", length |-> rep.length, refcount |-> m.refcount,
                   body |-> truncate(body.text, m.limit)]

\* a rope that is what it should be, shown without limit
BaseCord(layout, leaf, ops) ==
    [layout |-> layout, leaf |-> leaf, ops |-> ops, loop |-> NoLoop, limit |-> 0,
     N |-> 2, dataN |-> 3, data |-> <<>>, refcount |-> 1]

\* the cords that differ from m in one respect: a display limit, a cycle,
\* a text held in the Cord itself (the layout with contents_ only)
CordVariations(m) ==
    {[m EXCEPT !.limit = k] : k \in 1..MaxLimit}
    \cup {[m EXCEPT !.loop = [from |-> i, to |-> j]] :
             i \in 1..Len(m.ops), j \in 1..Len(m.ops)}
    \cup {[m EXCEPT !.limit = k, !.dataN = Len(d), !.data = d] :
             k \in IF m.layout = "contents" /\ m.ops = <<>> THEN 0..1 ELSE {},
             d \in {<<>>, <<97>>, <<98, 233>>}}

CordInit ==
    /\ \E layout \in {"contents", "rep"} :
         \E leaf \in BaseLeaves :
           \E ops \in OpSeqs(MaxSpine) :
             \E m \in {BaseCord(layout, leaf, ops)}
                      \cup CordVariations(BaseCord(layout, leaf, ops)) :
                cord = m
    /\ cp = [pc |-> "new"]
    /\ yielded = <<>>
    /\ pc = "idle" /\ MsgIdle /\ RbIdle /\ HashIdle /\ MapIdle /\ ArrayIdle /\ RegIdle

\* CordPrinter.__init__: val["contents_"] raises for a Cord without it
Cord_Init ==
    /\ cp.pc = "new"
    /\ cp' = [pc |-> "made", has_contents |-> cord.layout = "contents"]
    /\ UNCHANGED <<cord, yielded, msgVars, rbVars, hashVars, mp, arrVars, regVars>>

\* CordPrinter.to_string
Cord_to_string ==
    /\ cp.pc = "made"
    /\ LET r == CordPrinter_to_string(cord, cp.has_contents)
       IN  cp' = [pc |-> IF r.raised # "" THEN "raised" ELSE "done",
                  has_contents |-> cp.has_contents,
                  exc |-> r.raised, length |-> r.length,
                  refcount |-> r.refcount, body |-> r.body]
    /\ UNCHANGED <<cord, yielded, msgVars, rbVars, hashVars, mp, arrVars, regVars>>

CordNext == Cord_Init \/ Cord_to_string

SpecCord == CordInit /\ [][CordNext]_vars

\* to_string has come to its end on a Cord whose text is in a rope
CordEnded == cp.pc \in {"done", "raised"}
RopeEnded == CordEnded /\ ~(cp.has_contents /\ ~is_tree(cord))

\* print_rep on the CordRep at ref, called on its own
Rendered(ref) == print_rep(cord, cp.has_contents, ref, 0)

\* the inner nodes that are a Concat, a Substring
ConcatNodes == {i \in 1..Len(cord.ops) : cord.ops[i].kind # "substring"}
SubstringNodes == {i \in 1..Len(cord.ops) : cord.ops[i].kind = "substring"}

(***************************************************************************)
(* C12  CordPrinter.print_rep of a Concat node is print_rep of its left    *)
(* child followed by print_rep of its right child, in the layout with      *)
(* contents_ and in the one with rep_, whatever lies beneath (Flat,        *)
(* function/external, Substring, Concat, a subtree shared by both sides);  *)
(* and that is the text to_string shows for a Concat root.                 *)
(***************************************************************************)
C12_ConcatIsLeftThenRight ==
    RopeEnded
    => /\ \A i \in ConcatNodes :
             LET node == Rendered(SpineRef(i))
                 left == Rendered(Deref(cord, SpineRef(i)).left)
                 right == Rendered(Deref(cord, SpineRef(i)).right)
             IN  node.raised = ""
                 => /\ left.raised = "" /\ right.raised = ""
                    /\ node.text = left.text \o right.text
       /\ (cp.pc = "done" /\ cord.limit = 0 /\ Len(cord.ops) \in ConcatNodes)
          => cp.body = Rendered(Deref(cord, RootRef(cord)).left).text
                       \o Rendered(Deref(cord, RootRef(cord)).right).text

C12_Witness ==
    /\ cp.pc = "done" /\ cord.layout = "rep" /\ cord.limit = 0
    /\ cord.leaf = Flat(OLD_TAG_FLAT, <<233, 99>>, 2)
    /\ Len(cord.ops) = 2
    /\ cord.ops[1] = [kind |-> "concatL", side |-> 2, start |-> 0, length |-> 0]
    /\ cord.ops[2].kind = "concatSelf"
    /\ cp.body = CordFunction \o <<"E", "c">> \o CordFunction \o <<"E", "c">>

(***************************************************************************)
(* C13  CordPrinter.print_rep of a Substring node with start s and length  *)
(* l over child C is the characters s .. s+l-1 (from 0) of print_rep(C),   *)
(* as many of them as the rendered child has: the cut is made in the       *)
(* child's rendered text and l is the Substring node's own length field.   *)
(***************************************************************************)
C13_SubstringIsSliceOfChild ==
    RopeEnded
    => /\ \A i \in SubstringNodes :
             LET node == Rendered(SpineRef(i))
                 rep == Deref(cord, SpineRef(i))
                 child == Rendered(rep.child)
                 last == IF rep.start + rep.length < Len(child.text)
                         THEN rep.start + rep.length ELSE Len(child.text)
             IN  node.raised = ""
                 => /\ child.raised = ""
                    /\ node.text = SubSeq(child.text, rep.start + 1, last)
       /\ (cp.pc = "done" /\ cord.limit = 0 /\ Len(cord.ops) \in SubstringNodes)
          => cp.body = Rendered(RootRef(cord)).text

C13_Witness ==
    /\ cp.pc = "done" /\ cord.layout = "contents" /\ cord.limit = 0
    /\ cord.leaf = Flat(TAG_FLAT, <<97, 98>>, 2)
    /\ Len(cord.ops) = 2
    /\ cord.ops[1] = [kind |-> "concatR", side |-> 1, start |-> 0, length |-> 0]
    /\ cord.ops[2] = [kind |-> "substring", side |-> 1, start |-> 1, length |-> 1]
    /\ cp.body = <<"b">>

(***************************************************************************)
(* C14  With the display limit K set, the text part of                     *)
(* CordPrinter.to_string is the first K characters of the rendered Cord    *)
(* followed by ' ...' exactly when the rendered Cord has more than K       *)
(* characters; with no limit, or with at most K characters, it is the      *)
(* whole rendered text and no marker.                                      *)
(***************************************************************************)
FullText ==
    IF cp.has_contents /\ ~is_tree(cord)
    THEN string(cord.data, cord.dataN)
    ELSE Rendered(RootRef(cord)).text

C14_CordLimit ==
    cp.pc = "done"
    => cp.body = IF cord.limit # 0 /\ Len(FullText) > cord.limit
                 THEN SubSeq(FullText, 1, cord.limit) \o Ellipsis
                 ELSE FullText

C14_Witness ==
    /\ cp.pc = "done" /\ cord.limit = 2 /\ cord.layout = "contents"
    /\ Len(FullText) = 3
    /\ cp.body = <<"a", "b", " ", ".", ".", ".">>

(***************************************************************************)
(* C15  CordPrinter.to_string returns a string for every rope, also for   *)
(* one in which a Concat or Substring node reaches itself again through    *)
(* its links and for one with shared subtrees.  On a cycle print_rep calls *)
(* itself until Python's recursion limit raises RuntimeError, which        *)
(* nothing in to_string catches.                                           *)
(***************************************************************************)
C15_CordAlwaysReturnsText ==
    CordEnded => cp.pc = "done"

(***************************************************************************)
(* ProtoArrayPrinter and ProtoPtrArrayPrinter called on a repeated-field   *)
(* array: the text, and the reads of the inferior in their order.          *)
(***************************************************************************)
\* largest size of an inspected array
MaxArray == 3

\* the read of the pointer in slot i fails (ProtoPtrArray: dereference())
FailFetch(i) == <<"fetch", NoName, i>>

\* the number of passes of the loop that begin
Passes(size, limit, fail) ==
    LET n == IF limit # 0 /\ limit < size THEN limit ELSE size
    IN  IF fail[1] \in {"elem", "fetch"} /\ fail[3] < n THEN fail[3] + 1 ELSE n

Read(what, i) == <<what, i>>

\* a variant that asks for the display limit before it looks at the size
ArrayReads_limit_first(size, limit, fail) ==
    <<Read("space_field", 0), Read("size_field", 0), Read("print elements", 0)>>
    \o (IF size = Poison \/ size <= 0 THEN <<>>
        ELSE [i \in 1..Passes(size, limit, fail) |-> Read("element", i - 1)])

\* the reads of to_string in their order: self.val[self.space_field],
\* self.val[self.size_field], gdb.parameter('print elements'), space[i]
ArrayReads(size, limit, fail) ==
    <<Read("space_field", 0), Read("size_field", 0)>>
    \o (IF size = Poison \/ size <= 0 THEN <<>>
        ELSE <<Read("print elements", 0)>>
             \o [i \in 1..Passes(size, limit, fail) |-> Read("element", i - 1)])

ArrayInit ==
    /\ \E kind \in {"ProtoArray", "ProtoPtrArray"} :
         \E size \in {Poison, -1} \cup 0..MaxArray :
           \E limit \in 0..MaxLimit :
             \E name \in {NoName, <<"c">>} :
               \E fail \in {NoFail} \cup {FailElem(i) : i \in 0..(size - 1)}
                           \cup {FailFetch(i) : i \in IF kind = "ProtoPtrArray"
                                                      THEN 0..(size - 1) ELSE {}} :
                  arr = [kind |-> kind, size |-> size, limit |-> limit,
                         name |-> name, fail |-> fail]
    /\ ap = [pc |-> "start", text |-> <<>>, exc |-> "", reads |-> <<>>]
    /\ yielded = <<>>
    /\ pc = "idle" /\ MsgIdle /\ RbIdle /\ HashIdle /\ MapIdle /\ CordIdle /\ RegIdle

\* ProtoArrayPrinter.to_string, ProtoPtrArrayPrinter.to_string
Array_to_string ==
    /\ ap.pc = "start"
    /\ LET reads == ArrayReads(arr.size, arr.limit, arr.fail)
           text == IF arr.kind = "ProtoArray"
                   THEN ProtoArrayPrinter_to_string(arr.size, arr.limit, arr.name, arr.fail)
                   ELSE ProtoPtrArrayPrinter_to_string(arr.size, arr.limit, arr.name, arr.fail)
       IN  IF /\ arr.fail[1] = "fetch" /\ arr.size # Poison
              /\ Read("element", arr.fail[3]) \in Range(reads)
           THEN ap' = [pc |-> "raised", text |-> <<>>, exc |-> "RuntimeError",
                       reads |-> reads]
           ELSE ap' = [pc |-> "done", text |-> text, exc |-> "", reads |-> reads]
    /\ UNCHANGED <<arr, yielded, msgVars, rbVars, hashVars, mp, cordVars, regVars>>

ArrayNext == Array_to_string

SpecArray == ArrayInit /\ [][ArrayNext]_vars

ArrayEnded == ap.pc \in {"done", "raised"}

\* the tokens of elements in the text
ElementTokens(text) == SelectSeq(text, LAMBDA t : t[1] \in {"nv", "val", "nverr", "err"})
\* the token of element i when it is read
ElementToken(name, i) ==
    IF name # NoName THEN NameValue(name, ElemVal(i)) ELSE Value(ElemVal(i))
ElementError(name) == IF name # NoName THEN NameError(name) ELSE BareError

(***************************************************************************)
(* C16  The array printers: with the display limit K set and a size N > K  *)
(* the text holds at most K elements and a truncation marker; with no      *)
(* limit, or N <= K, it holds all N elements and no marker.  The code cuts *)
(* the count to K and sets no marker.                                      *)
(***************************************************************************)
TruncationMarker == <<"truncated", NoName, 0>>

C16_ArrayLimitWithMarker ==
    (ap.pc = "done" /\ arr.size > 0 /\ arr.fail = NoFail)
    => IF arr.limit # 0 /\ arr.size > arr.limit
       THEN /\ Len(ElementTokens(ap.text)) <= arr.limit
            /\ Places(ap.text, TruncationMarker) # {}
       ELSE /\ ElementTokens(ap.text)
                 = [i \in 1..arr.size |-> ElementToken(arr.name, i - 1)]
            /\ Places(ap.text, TruncationMarker) = {}

(***************************************************************************)
(* C17  as stated: on the poison size the printers return the DANGLING     *)
(* marker and the size field is the only field of the value accessed.      *)
(***************************************************************************)
C17_PoisonReadsSizeOnly ==
    (ArrayEnded /\ arr.size = Poison)
    => /\ ap.pc = "done" /\ ap.text = <<Dangling>>
       /\ ap.reads = <<Read("size_field", 0)>>

(***************************************************************************)
(* C17  as the code has it: on the poison size (-842150451) the printers   *)
(* return the DANGLING marker at once; the field of the backing storage    *)
(* and then the size field are the only fields of the value accessed, no   *)
(* element of the storage is read and the display limit is not asked for.  *)
(***************************************************************************)
C17_PoisonReadsNoElement ==
    (ArrayEnded /\ arr.size = Poison)
    => /\ ap.pc = "done" /\ ap.text = <<Dangling>>
       /\ ap.reads = <<Read("space_field", 0), Read("size_field", 0)>>

C17_Witness ==
    /\ ap.pc = "done" /\ arr.size = Poison /\ arr.kind = "ProtoPtrArray"
    /\ arr.limit = 1 /\ arr.name = <<"c">>
    /\ ap.text = <<Dangling>>

(***************************************************************************)
(* C18  The array printers: a failed read of element i (in the fetch or    *)
(* in the formatting) gives an error token for element i only; the         *)
(* elements i+1 .. n-1 are rendered after it and the call returns a        *)
(* string.  The code leaves the loop after the error token, and a failing  *)
(* dereference of ProtoPtrArrayPrinter is outside the try statement.       *)
(***************************************************************************)
C18_ElementFailureIsLocal ==
    (/\ ArrayEnded /\ arr.size # Poison /\ arr.fail[1] \in {"elem", "fetch"}
     /\ Read("element", arr.fail[3]) \in Range(ap.reads))
    => /\ ap.pc = "done"
       /\ LET n == IF arr.limit # 0 /\ arr.limit < arr.size THEN arr.limit ELSE arr.size
          IN  ElementTokens(ap.text)
                = [i \in 1..n |-> IF i - 1 = arr.fail[3] THEN ElementError(arr.name)
                                  ELSE ElementToken(arr.name, i - 1)]

(***************************************************************************)
(* The registration of the google3 printers and the lookup of the printer  *)
(* of a value.  A type is its own tag and the tags met by following the    *)
(* first field: chain[1] is the tag of the type of the first field of the  *)
(* value's type, chain[2] that of the first field of that type, and so on; *)
(* the last type of the chain has no field.  static = k > 0 says that the  *)
(* first field leading to chain[k] is a static one.                        *)
(***************************************************************************)
\* longest first-field chain of an inspected type
MaxChain == 2

\* tp.tag of a type without a tag
NoTag == NoName
\* the result of a printer that does not recognise the value
NoPrinter == "None"

T_ProtocolMessage == <<"P", "r", "o", "t", "o", "c", "o", "l", "M", "e", "s", "s", "a", "g", "e">>
T_ProtocolMessageGroup == <<"P", "r", "o", "t", "o", "c", "o", "l", "M", "e", "s", "s", "a", "g", "e", "G", "r", "o", "u", "p">>
T_proto2_Message == <<"p", "r", "o", "t", "o", "2", ":", ":", "M", "e", "s", "s", "a", "g", "e">>
T_GenericRepeatedField == <<"p", "r", "o", "t", "o", "2", ":", ":", "i", "n", "t", "e", "r", "n", "a", "l", ":", ":", "G", "e", "n", "e", "r", "i", "c", "R", "e", "p", "e", "a", "t", "e", "d", "F", "i", "e", "l", "d">>
T_Other == <<"B", "a", "s", "e">>

\* the tags a first field's type may have
BaseTags == {T_ProtocolMessage, T_ProtocolMessageGroup, T_proto2_Message,
             T_GenericRepeatedField, T_Other}

\* the tags a value's type may have
ValueTags ==
    {NoTag,
     <<"s", "c", "o", "p", "e", "d", "_", "p", "t", "r", "<", "i", "n", "t", ">">>,
     <<"s", "c", "o", "p", "e", "d", "_", "p", "t", "r">>,
     <<"b", "a", "s", "i", "c", "_", "s", "t", "r", "i", "n", "g", "<", "c", "h", "a", "r", ">">>,
     <<"b", "a", "s", "i", "c", "_", "s", "t", "r", "i", "n", "g", "<", "c", "h", "a", "r", "1", "6", "_", "t", ">">>,
     <<"b", "a", "s", "i", "c", "_", "s", "t", "r", "i", "n", "g", "<", "w", "c", "h", "a", "r", "_", "t", ">">>,
     <<"_", "_", "g", "n", "u", "_", "c", "x", "x", ":", ":", "h", "a", "s", "h", "_", "m", "a", "p", "<", "i", "n", "t", ">">>,
     <<"_", "_", "g", "n", "u", "_", "c", "x", "x", ":", ":", "h", "a", "s", "h", "_", "s", "e", "t", "<", "i", "n", "t", ">">>,
     <<"P", "r", "o", "t", "o", "A", "r", "r", "a", "y", "<", "i", "n", "t", ">">>,
     <<"P", "r", "o", "t", "o", "P", "t", "r", "A", "r", "r", "a", "y", "<", "M", ">">>,
     <<"p", "r", "o", "t", "o", "2", ":", ":", "R", "e", "p", "e", "a", "t", "e", "d", "F", "i", "e", "l", "d", "<", "i", "n", "t", ">">>,
     <<"p", "r", "o", "t", "o", "2", ":", ":", "R", "e", "p", "e", "a", "t", "e", "d", "P", "t", "r", "F", "i", "e", "l", "d", "<", "M", ">">>,
     <<"C", "o", "r", "d">>,
     <<"C", "o", "r", "d", "s">>,
     <<"S", "t", "r", "i", "n", "g", "P", "i", "e", "c", "e">>,
     <<"F", "i", "x", "e", "d", "A", "r", "r", "a", "y", "<", "i", "n", "t", ">">>,
     <<"u", "t", "i", "l", ":", ":", "g", "t", "l", ":", ":", "I", "n", "l", "i", "n", "e", "d", "V", "e", "c", "t", "o", "r", "<", "i", "n", "t", ">">>,
     <<"M", "y", "M", "s", "g">>}

\* Python's True
True == 1

\* a variant that goes through a static first field
RECURSIVE inherits_from_p_ignores_static(_, _, _)
inherits_from_p_ignores_static(tp, i, candidates) ==
    IF i >= Len(tp.chain) THEN None
    ELSE IF tp.chain[i + 1] \in candidates THEN True
    ELSE inherits_from_p_ignores_static(tp, i + 1, candidates)

\* inherits_from_p(tp, candidates) where tp is the type at level i of the
\* chain (level 0: the value's type): True or None.
RECURSIVE inherits_from_p(_, _, _)
inherits_from_p(tp, i, candidates) ==
    IF i >= Len(tp.chain) THEN None                  \* len(fields) = 0
    ELSE IF tp.static = i + 1 THEN None              \* f0.bitpos raises
    ELSE IF tp.chain[i + 1] \in candidates THEN True
    ELSE inherits_from_p(tp, i + 1, candidates)

is_proto1_message(tp) ==
    inherits_from_p(tp, 0, {T_ProtocolMessage, T_ProtocolMessageGroup})

is_proto2_message(tp) ==
    inherits_from_p(tp, 0, {T_proto2_Message, T_GenericRepeatedField})

\* Protobuf1PrettyPrinter.__call__
Protobuf1PrettyPrinter(tp) ==
    IF tp.tag = NoTag THEN NoPrinter
    ELSE IF is_proto1_message(tp) = True THEN "Proto1MessagePrinter"
    ELSE NoPrinter

\* Protobuf2PrettyPrinter.__call__
Protobuf2PrettyPrinter(tp) ==
    IF tp.tag = NoTag THEN NoPrinter
    ELSE IF is_proto2_message(tp) = True THEN "Proto2MessagePrinter"
    ELSE NoPrinter

\* build_google3_printer: the entries in the order of the add_printer calls.
\* An entry '^head.*tail$' has anything = TRUE, an entry '^head$' FALSE.
build_google3_printer ==
    <<
       [name |-> "scoped_ptr", printer |-> "GoogScopedPointerPrinter", anything |-> TRUE,
        head |-> <<"s", "c", "o", "p", "e", "d", "_", "p", "t", "r", "<">>,
        tail |-> <<">">>],
       [name |-> "basic_string<char>", printer |-> "StdStringPrinter(0)", anything |-> TRUE,
        head |-> <<"b", "a", "s", "i", "c", "_", "s", "t", "r", "i", "n", "g", "<", "c", "h", "a", "r">>,
        tail |-> <<">">>],
       [name |-> "basic_string<wchar_t>", printer |-> "StdStringPrinter(1)", anything |-> TRUE,
        head |-> <<"b", "a", "s", "i", "c", "_", "s", "t", "r", "i", "n", "g", "<", "w", "c", "h", "a", "r", "_", "t">>,
        tail |-> <<">">>],
       [name |-> "__gnu_cxx::hash_map", printer |-> "HashTablePrinter(hash_map)", anything |-> TRUE,
        head |-> <<"_", "_", "g", "n", "u", "_", "c", "x", "x", ":", ":", "h", "a", "s", "h", "_", "m", "a", "p", "<">>,
        tail |-> <<">">>],
       [name |-> "__gnu_cxx::hash_set", printer |-> "HashTablePrinter(hash_set)", anything |-> TRUE,
        head |-> <<"_", "_", "g", "n", "u", "_", "c", "x", "x", ":", ":", "h", "a", "s", "h", "_", "s", "e", "t", "<">>,
        tail |-> <<">">>],
       [name |-> "ProtoArray", printer |-> "Proto1ArrayPrinter", anything |-> TRUE,
        head |-> <<"P", "r", "o", "t", "o", "A", "r", "r", "a", "y", "<">>,
        tail |-> <<">">>],
       [name |-> "ProtoPtrArray", printer |-> "Proto1PtrArrayPrinter", anything |-> TRUE,
        head |-> <<"P", "r", "o", "t", "o", "P", "t", "r", "A", "r", "r", "a", "y", "<">>,
        tail |-> <<">">>],
       [name |-> "proto2::RepeatedField", printer |-> "Proto2ArrayPrinter", anything |-> TRUE,
        head |-> <<"p", "r", "o", "t", "o", "2", ":", ":", "R", "e", "p", "e", "a", "t", "e", "d", "F", "i", "e", "l", "d", "<">>,
        tail |-> <<">">>],
       [name |-> "proto2::RepeatedPtrField", printer |-> "Proto2PtrArrayPrinter", anything |-> TRUE,
        head |-> <<"p", "r", "o", "t", "o", "2", ":", ":", "R", "e", "p", "e", "a", "t", "e", "d", "P", "t", "r", "F", "i", "e", "l", "d", "<">>,
        tail |-> <<">">>],
       [name |-> "Cord", printer |-> "CordPrinter", anything |-> FALSE,
        head |-> <<"C", "o", "r", "d">>,
        tail |-> <<>>],
       [name |-> "StringPiece", printer |-> "StringPiecePrinter", anything |-> FALSE,
        head |-> <<"S", "t", "r", "i", "n", "g", "P", "i", "e", "c", "e">>,
        tail |-> <<>>],
       [name |-> "FixedArray", printer |-> "FixedArrayPrinter", anything |-> TRUE,
        head |-> <<"F", "i", "x", "e", "d", "A", "r", "r", "a", "y", "<">>,
        tail |-> <<">">>],
       [name |-> "util::gtl::InlinedVector", printer |-> "InlinedVectorPrinter", anything |-> TRUE,
        head |-> <<"u", "t", "i", "l", ":", ":", "g", "t", "l", ":", ":", "I", "n", "l", "i", "n", "e", "d", "V", "e", "c", "t", "o", "r", "<">>,
        tail |-> <<">">>]
    >>

\* the regular expression of an entry matches the type name
Matches(entry, typename) ==
    IF entry.anything
    THEN /\ Len(typename) >= Len(entry.head) + Len(entry.tail)
         /\ StartsWith(typename, entry.head)
         /\ EndsWith(typename, entry.tail)
    ELSE typename = entry.head

\* the entries of the collection that match the type name
Matching(typename) ==
    {k \in 1..Len(build_google3_printer) : Matches(build_google3_printer[k], typename)}

\* RegexpCollectionPrettyPrinter.__call__: the first entry, in the order
\* of the add_printer calls, whose expression matches the tag
RegexpCollectionPrettyPrinter(tp) ==
    IF tp.tag = NoTag \/ Matching(tp.tag) = {} THEN NoPrinter
    ELSE LET k == CHOOSE j \in Matching(tp.tag) : \A l \in Matching(tp.tag) : j <= l
         IN  build_google3_printer[k].printer

\* a registered printer called on a value of type tp
CallPrinter(p, tp) ==
    CASE p = "builtin-google3"   -> RegexpCollectionPrettyPrinter(tp)
      [] p = "builtin-protobuf2" -> Protobuf2PrettyPrinter(tp)
      [] p = "builtin-protobuf1" -> Protobuf1PrettyPrinter(tp)
      [] OTHER -> NoPrinter

\* a variant that adds the new printer at the end of the list
register_pretty_printer_at_tail(pretty_printers, printer) ==
    Append(pretty_printers, printer)

\* gdb.printing.register_pretty_printer: "new printers are added to the
\* head of the list"
register_pretty_printer(pretty_printers, printer) ==
    <<printer>> \o pretty_printers

\* a variant that registers the protobuf1 printer before the protobuf2 one
register_google3_printers_proto1_first(pretty_printers) ==
    register_pretty_printer(
        register_pretty_printer(
            register_pretty_printer(pretty_printers, "builtin-google3"),
            "builtin-protobuf1"),
        "builtin-protobuf2")

\* register_google3_printers: the list after the three registrations
register_google3_printers(pretty_printers) ==
    register_pretty_printer(
        register_pretty_printer(
            register_pretty_printer(pretty_printers, "builtin-google3"),
            "builtin-protobuf2"),
        "builtin-protobuf1")

\* the lookup of the host: the printers of the list are called from its
\* head, the first result that is not None is the printer of the value
RECURSIVE FirstPrinter(_, _, _)
FirstPrinter(pretty_printers, i, tp) ==
    IF i > Len(pretty_printers) THEN NoPrinter
    ELSE IF CallPrinter(pretty_printers[i], tp) # NoPrinter
         THEN CallPrinter(pretty_printers[i], tp)
         ELSE FirstPrinter(pretty_printers, i + 1, tp)

RegInit ==
    /\ \E tag \in ValueTags :
         \E n \in 0..MaxChain :
           \E chain \in [1..n -> BaseTags] :
             \E static \in 0..n :
               vtype = [tag |-> tag, chain |-> chain, static |-> static]
    /\ \E before \in {<<>>, <<"libstdc++-v6">>} :
         reg = [pc |-> "loaded", pretty_printers |-> before, printer |-> NoPrinter]
    /\ yielded = <<>>
    /\ pc = "idle" /\ MsgIdle /\ RbIdle /\ HashIdle /\ MapIdle /\ CordIdle /\ ArrayIdle

\* register_google3_printers(obj)
Reg_register ==
    /\ reg.pc = "loaded"
    /\ reg' = [reg EXCEPT !.pc = "registered",
                          !.pretty_printers = register_google3_printers(@)]
    /\ UNCHANGED <<vtype, yielded, msgVars, rbVars, hashVars, mp, cordVars, arrVars>>

\* the host looks up the printer of a value
Reg_lookup ==
    /\ reg.pc = "registered"
    /\ reg' = [reg EXCEPT !.pc = "resolved",
                          !.printer = FirstPrinter(reg.pretty_printers, 1, vtype)]
    /\ UNCHANGED <<vtype, yielded, msgVars, rbVars, hashVars, mp, cordVars, arrVars>>

RegNext == Reg_register \/ Reg_lookup

SpecReg == RegInit /\ [][RegNext]_vars

\* the probe of a record printer: the type has a tag and inherits
Probe1 == vtype.tag # NoTag /\ is_proto1_message(vtype) = True
Probe2 == vtype.tag # NoTag /\ is_proto2_message(vtype) = True

(***************************************************************************)
(* C19  After register_google3_printers, a value whose type satisfies both *)
(* record probes (the type has a tag, its first-field chain reaches        *)
(* ProtocolMessage or ProtocolMessageGroup and also proto2::Message) is    *)
(* resolved to Proto1MessagePrinter, never to Proto2MessagePrinter; a      *)
(* value that satisfies the general probe only is resolved to              *)
(* Proto2MessagePrinter.                                                   *)
(***************************************************************************)
C19_LegacyRecordFirst ==
    reg.pc = "resolved"
    => /\ (Probe1 /\ Probe2) => reg.printer = "Proto1MessagePrinter"
       /\ (Probe2 /\ ~Probe1) => reg.printer = "Proto2MessagePrinter"

C19_Witness ==
    /\ reg.pc = "resolved"
    /\ vtype.tag = <<"M", "y", "M", "s", "g">>
    /\ vtype.chain = <<T_ProtocolMessage, T_proto2_Message>> /\ vtype.static = 0
    /\ reg.printer = "Proto1MessagePrinter"

\* the results of the three printers in the order they are registered
ByRegistration ==
    <<RegexpCollectionPrettyPrinter(vtype), Protobuf2PrettyPrinter(vtype),
      Protobuf1PrettyPrinter(vtype)>>

\* the first result of a sequence that is a printer
RECURSIVE FirstResult(_, _)
FirstResult(results, i) ==
    IF i > Len(results) THEN NoPrinter
    ELSE IF results[i] # NoPrinter THEN results[i]
    ELSE FirstResult(results, i + 1)

(***************************************************************************)
(* C20  as stated: of the registered printers that match a value the one   *)
(* registered earliest is returned, among the entries of the google3       *)
(* collection and among the collection, Protobuf2PrettyPrinter and         *)
(* Protobuf1PrettyPrinter, registered in that order.                       *)
(***************************************************************************)
C20_FirstRegisteredWins ==
    reg.pc = "resolved" => reg.printer = FirstResult(ByRegistration, 1)

(***************************************************************************)
(* C20  as the code has it: of the three printers registered by            *)
(* register_google3_printers the one registered latest is asked first      *)
(* (Protobuf1PrettyPrinter, then Protobuf2PrettyPrinter, then the google3  *)
(* collection) and the first that returns a printer wins; no type name is  *)
(* matched by two entries of the google3 collection.                       *)
(***************************************************************************)
C20_LastRegisteredWins ==
    reg.pc = "resolved"
    => /\ reg.printer = FirstResult(Reverse(ByRegistration), 1)
       /\ Cardinality(Matching(vtype.tag)) <= 1

C20_Witness ==
    /\ reg.pc = "resolved"
    /\ vtype.tag = <<"p", "r", "o", "t", "o", "2", ":", ":", "R", "e", "p", "e", "a", "t", "e", "d", "F", "i", "e", "l", "d", "<", "i", "n", "t", ">">>
    /\ vtype.chain = <<T_GenericRepeatedField>>
    /\ RegexpCollectionPrettyPrinter(vtype) = "Proto2ArrayPrinter"
    /\ reg.printer = "Proto2MessagePrinter"

(***************************************************************************)
(* The three iterators on structures whose declared count differs from     *)
(* what the links hold: a tree or a table with more or fewer nodes than    *)
(* declared, a chain whose last node links back into the chain.            *)
(***************************************************************************)
\* the tree of the keys s with _M_node_count set to `declared'
MiscountedTree(s, declared) == [BuildTree(s) EXCEPT !.size = declared]

\* the table with _M_num_elements / _M_element_count set to `declared'
\* and the cycle given
MiscountedTable(kind, nb, m, assign, desc, declared, cycle) ==
    [BuildTable(kind, nb, m, assign, desc) EXCEPT !.size = declared,
                                                  !.cycle = cycle]

\* the cycles a table can have: the last node of a chain that is not
\* empty links to a node of the chain
Cycles(t) ==
    {[bucket |-> b, to |-> k] : b \in 1..NBuckets(t), k \in 1..MaxChained}
        \cap {c \in [bucket : 1..NBuckets(t), to : 1..MaxChained] :
                c.to <= Len(t.chains[c.bucket])}

\* The tree has a node at least, as the links of the header of an empty
\* tree lead to the header itself.  The tr1 table is not declared to hold
\* more than its chains do unless a chain is cyclic: what lies behind the
\* entry that ends its bucket array is not part of the model.
BoundInit ==
    /\ \/ /\ \E n \in 1..MaxNodes : \E p \in Perms(n) : \E declared \in 0..(n + 1) :
               tree = MiscountedTree(p, declared)
          /\ rb = [pc |-> "new", size |-> 0, node |-> Nil, count |-> 0,
                   reads |-> 0, taken |-> 0]
          /\ HashIdle
       \/ /\ \E kind \in {"hashtable", "tr1"} :
               \E nb \in 1..MaxBuckets :
                 \E m \in 0..MaxChained :
                   \E assign \in [1..m -> 0..(nb - 1)] :
                     \E declared \in 0..(m + 1) :
                       \E cycle \in {NoCycle}
                                    \cup Cycles(BuildTable(kind, nb, m, assign, FALSE)) :
                          /\ table = MiscountedTable(kind, nb, m, assign, FALSE,
                                                     declared, cycle)
                          /\ kind = "tr1" => (declared <= m \/ cycle # NoCycle)
          /\ ht = [pc |-> "new"]
          /\ RbIdle
    /\ yielded = <<>>
    /\ pc = "idle" /\ MsgIdle /\ AuxIdle

BoundNext == (tree # IdleRb /\ RbNext) \/ (table # IdleHash /\ HashNext)

SpecBound == BoundInit /\ [][BoundNext]_vars

\* the elements the chains hold
Stored(t) == Len(ChainsFrom(t, 1))

(***************************************************************************)
(* C21  RbtreeIterator, _HashTableIterator, Tr1HashtableIterator with the  *)
(* declared count N: never more than N elements are yielded, and once the  *)
(* N-th element has been taken the iterator reads no further node link     *)
(* and no further bucket slot, whatever the links and the buckets hold.    *)
(* Tr1HashtableIterator.next reads the link of the node it has taken, and  *)
(* update the slots of the buckets that follow, before the count is        *)
(* looked at.                                                              *)
(***************************************************************************)
C21_NoReadPastCount ==
    /\ (tree # IdleRb /\ rb.pc # "new")
       => /\ Len(yielded) <= tree.size
          /\ Len(yielded) = tree.size => rb.reads = rb.taken
    /\ (table # IdleHash /\ ht.pc # "new")
       => /\ Len(yielded) <= table.size
          /\ Len(yielded) = table.size => ht.reads = ht.taken

Min(a, b) == IF a < b THEN a ELSE b

\* _HashTableIterator is at work
HashTableWalk == table # IdleHash /\ table.kind = "hashtable" /\ ht.pc # "new"

(***************************************************************************)
(* C22  _HashTableIterator with the declared count N, B buckets and M      *)
(* stored elements: every call of next() ends; the iteration yields        *)
(* min(N, M) elements when no chain is cyclic and N elements when a chain  *)
(* is cyclic; count <= N and bucket <= B at every moment; the iteration    *)
(* ends as soon as count is N or the bucket index is B: the call of next() *)
(* made in such a state raises StopIteration, and the iteration stops in   *)
(* no other state.                                                         *)
(***************************************************************************)
C22_HashTableBounded ==
    /\ [](HashTableWalk
          => /\ ht.count <= table.size /\ ht.bucket <= NBuckets(table)
             /\ Len(yielded) = ht.count
             /\ ht.pc = "stopped"
                => /\ ht.count = table.size \/ ht.bucket = NBuckets(table)
                   /\ Len(yielded) = IF table.cycle = NoCycle
                                     THEN Min(table.size, Stored(table))
                                     ELSE table.size)
    /\ [][(HashTableWalk /\ ht.pc = "ready")
          => /\ ht'.pc \in {"ready", "stopped"}
             /\ (ht.count = table.size \/ ht.bucket = NBuckets(table))
                => ht'.pc = "stopped"]_vars

C22_Witness ==
    /\ HashTableWalk /\ ht.pc = "stopped"
    /\ table.chains = <<<<>>, <<1, 2>>>> /\ table.cycle = [bucket |-> 2, to |-> 2]
    /\ table.size = 3
    /\ yielded = <<1, 2, 2>>

(***************************************************************************)
(* The children and the summary of the container printers: StdMapPrinter   *)
(* and StdSetPrinter over RbtreeIterator, HashTablePrinter (hash_map or    *)
(* hash_set) over _HashTableIterator, Tr1UnorderedMapPrinter over          *)
(* Tr1HashtableIterator.  The element of key k of a map is the pair        *)
(* (k, Val(k)).                                                            *)
(***************************************************************************)
\* most elements of a printed container
MaxKids == 3
\* most buckets of a printed table
MaxSlots == 2

\* the second of the pair whose first is k
Val(k) == IF k % 2 = 1 THEN "a" ELSE "b"

\* the item of a child of a set: the element itself
Element(k) == <<"elem", k, "">>

\* StdSetPrinter._iter.next on _iter m over RbtreeIterator it
StdSet_iter_next(t, it, m) ==
    LET r == RbtreeIterator_next(t, it)
    IN  IF r.stop
        THEN [stop |-> TRUE, it |-> r.it, m |-> m, child |-> <<>>]
        ELSE [stop |-> FALSE, it |-> r.it,
              m |-> [m EXCEPT !.count = m.count + 1],
              child |-> Child(m.count, Element(r.result))]

\* a variant that takes a new element for the second of a pair too
HashTablePrinter_iter_next_advances_twice(t, it, m) ==
    LET r == HashTable_next(t, it)
    IN  IF r.stop
        THEN [stop |-> TRUE, it |-> r, m |-> m, child |-> <<>>]
        ELSE [stop |-> FALSE, it |-> r,
              m |-> [m EXCEPT !.pair = r.val, !.count = m.count + 1],
              child |-> Child(m.count, IF m.is_map /\ m.count % 2 = 1
                                       THEN Second(Val(r.val))
                                       ELSE IF m.is_map THEN First(r.val)
                                       ELSE Element(r.val))]

\* HashTablePrinter._iter.next on _iter m over _HashTableIterator it
HashTablePrinter_iter_next(t, it, m) ==
    IF m.is_map /\ m.count % 2 = 1
    THEN [stop |-> FALSE, it |-> it,
          m |-> [m EXCEPT !.count = m.count + 1],
          child |-> Child(m.count, Second(Val(m.pair)))]
    ELSE LET r == HashTable_next(t, it)
         IN  IF r.stop
             THEN [stop |-> TRUE, it |-> r, m |-> m, child |-> <<>>]
             ELSE [stop |-> FALSE, it |-> r,
                   m |-> [m EXCEPT !.pair = r.val, !.count = m.count + 1],
                   child |-> Child(m.count, IF m.is_map THEN First(r.val)
                                            ELSE Element(r.val))]

\* Tr1UnorderedMapPrinter.children: the next of izip(counter, data), where
\* data flattens the pairs (elt['first'], elt['second']) of the elements
\* of Tr1HashtableIterator it; m.count is the counter, m.pair the element
\* whose second is still to come
Tr1UnorderedMap_next(t, it, m) ==
    IF m.count % 2 = 1
    THEN [stop |-> FALSE, it |-> it,
          m |-> [m EXCEPT !.count = m.count + 1],
          child |-> Child(m.count, Second(Val(m.pair)))]
    ELSE LET r == Tr1HashtableIterator_next(t, it)
         IN  IF r.stop
             THEN [stop |-> TRUE, it |-> r.it, m |-> m, child |-> <<>>]
             ELSE [stop |-> FALSE, it |-> r.it,
                   m |-> [m EXCEPT !.pair = r.result, !.count = m.count + 1],
                   child |-> Child(m.count, First(r.result))]

OverTree == mp.printer \in {"StdMapPrinter", "StdSetPrinter"}

KidsInit ==
    /\ \/ /\ \E n \in 0..MaxKids : \E p \in Perms(n) :
               tree = [size |-> n, header |-> BuildTree(p).header,
                       nodes |-> BuildTree(p).nodes, vals |-> [k \in 1..n |-> Val(k)]]
          /\ rb = [pc |-> "new", size |-> 0, node |-> Nil, count |-> 0,
                   reads |-> 0, taken |-> 0]
          /\ \E printer \in {"StdMapPrinter", "StdSetPrinter"} :
               mp = [printer |-> printer, is_map |-> printer = "StdMapPrinter",
                     pc |-> "new", count |-> 0, pair |-> Nil, calls |-> 0,
                     pulls |-> 0, strs |-> <<>>]
          /\ HashIdle
       \/ /\ \E printer \in {"HashTablePrinter", "Tr1UnorderedMapPrinter"} :
               \E is_map \in BOOLEAN :
                 \E nb \in 1..MaxSlots : \E n \in 0..MaxKids :
                   \E assign \in [1..n -> 0..(nb - 1)] : \E desc \in BOOLEAN :
                      /\ printer = "Tr1UnorderedMapPrinter" => is_map
                      /\ table = BuildTable(IF printer = "HashTablePrinter"
                                            THEN "hashtable" ELSE "tr1",
                                            nb, n, assign, desc)
                      /\ mp = [printer |-> printer, is_map |-> is_map,
                               pc |-> "new", count |-> 0, pair |-> Nil,
                               calls |-> 0, pulls |-> 0, strs |-> <<>>]
          /\ ht = [pc |-> "new"]
          /\ RbIdle
    /\ yielded = <<>>
    /\ pc = "idle" /\ MsgIdle /\ CordIdle /\ ArrayIdle /\ RegIdle

\* __init__ of the printer: StdMapPrinter and StdSetPrinter make their
\* RbtreeIterator, HashTablePrinter its _iter with its _HashTableIterator
Kids_Init ==
    /\ mp.pc = "new"
    /\ mp' = [mp EXCEPT !.pc = "made"]
    /\ IF OverTree
       THEN /\ rb' = [pc |-> "ready", size |-> tree.size,
                      node |-> M_left(tree, Header), count |-> 0,
                      reads |-> 0, taken |-> 0]
            /\ UNCHANGED ht
       ELSE /\ ht' = IF mp.printer = "HashTablePrinter"
                     THEN HashTableIterator(table) ELSE ht
            /\ UNCHANGED rb
    /\ UNCHANGED <<tree, table, yielded, msgVars, cordVars, arrVars, regVars>>

\* children(): StdMapPrinter and StdSetPrinter return a new _iter over
\* self.iter, HashTablePrinter returns self.iter, Tr1UnorderedMapPrinter
\* makes a new Tr1HashtableIterator
Kids_children ==
    /\ mp.pc \in {"made", "iter", "stopped"} /\ mp.calls < MaxCalls
    /\ mp' = IF mp.printer = "HashTablePrinter"
             THEN [mp EXCEPT !.pc = "iter", !.calls = @ + 1, !.pulls = 0]
             ELSE [mp EXCEPT !.pc = "iter", !.calls = @ + 1, !.pulls = 0,
                             !.count = 0, !.pair = Nil]
    /\ ht' = IF mp.printer = "Tr1UnorderedMapPrinter"
             THEN Tr1HashtableIterator(table) ELSE ht
    /\ yielded' = <<>>
    /\ UNCHANGED <<tree, rb, table, msgVars, cordVars, arrVars, regVars>>

\* next() of the iterator that children() returned; pulls counts the
\* elements it has taken from the iterator beneath since children()
Kids_next ==
    /\ mp.pc = "iter"
    /\ LET r == CASE mp.printer = "StdMapPrinter" -> Map_iter_next(tree, rb, mp)
                  [] mp.printer = "StdSetPrinter" -> StdSet_iter_next(tree, rb, mp)
                  [] mp.printer = "HashTablePrinter"
                       -> HashTablePrinter_iter_next(table, ht, mp)
                  [] OTHER -> Tr1UnorderedMap_next(table, ht, mp)
           pulled == IF r.it # (IF OverTree THEN rb ELSE ht) /\ ~r.stop THEN 1 ELSE 0
       IN  /\ IF OverTree THEN rb' = r.it /\ UNCHANGED ht
                          ELSE ht' = r.it /\ UNCHANGED rb
           /\ IF r.stop
              THEN mp' = [r.m EXCEPT !.pc = "stopped"] /\ UNCHANGED yielded
              ELSE /\ mp' = [r.m EXCEPT !.pulls = @ + pulled]
                   /\ yielded' = Append(yielded, r.child)
    /\ UNCHANGED <<tree, table, msgVars, cordVars, arrVars, regVars>>

\* to_string(): the number in '%s with %d elements'; once before the
\* first children() and once after each
Kids_to_string ==
    /\ mp.pc \in {"made", "iter", "stopped"} /\ Len(mp.strs) <= mp.calls
    /\ mp' = [mp EXCEPT !.strs = Append(@, CASE OverTree -> rb.size
                                             [] mp.printer = "HashTablePrinter" -> ht.size
                                             [] OTHER -> table.size)]
    /\ UNCHANGED <<tree, rb, table, ht, yielded, msgVars, cordVars, arrVars, regVars>>

KidsNext == Kids_Init \/ Kids_children \/ Kids_next \/ Kids_to_string

SpecKids == KidsInit /\ [][KidsNext]_vars

\* the elements of the container in the order of its iterator
InOrder == IF OverTree THEN [k \in 1..tree.size |-> k] ELSE ChainsFrom(table, 1)

\* the children of a container whose elements come in the order `order'
ChildrenOf(order, is_map) ==
    IF is_map
    THEN [j \in 1..(2 * Len(order)) |->
            IF j % 2 = 1 THEN Child(j - 1, First(order[(j + 1) \div 2]))
            ELSE Child(j - 1, Second(Val(order[j \div 2])))]
    ELSE [j \in 1..Len(order) |-> Child(j - 1, Element(order[j]))]

(***************************************************************************)
(* C23  Each map printer (StdMapPrinter, HashTablePrinter of a hash_map,   *)
(* Tr1UnorderedMapPrinter), on the children() of a new printer: a map of   *)
(* N iterated elements has the 2N children [0]..[2N-1], the child [2i]     *)
(* the key and the child [2i+1] the value of the i-th element the          *)
(* iterator beneath gives, and that iterator is advanced once for each     *)
(* pair.                                                                   *)
(***************************************************************************)
C23_MapChildrenInPairs ==
    (mp.is_map /\ mp.calls = 1)
    => /\ Len(yielded) <= 2 * Len(InOrder)
       /\ yielded = SubSeq(ChildrenOf(InOrder, TRUE), 1, Len(yielded))
       /\ mp.pulls = (Len(yielded) + 1) \div 2
       /\ mp.pc = "stopped" => Len(yielded) = 2 * Len(InOrder)

C23_Witness ==
    /\ mp.printer = "HashTablePrinter" /\ mp.is_map /\ mp.calls = 1
    /\ mp.pc = "stopped"
    /\ table.chains = <<<<3>>, <<2, 1>>>>
    /\ yielded = <<Child(0, First(3)), Child(1, Second("a")),
                   Child(2, First(2)), Child(3, Second("b")),
                   Child(4, First(1)), Child(5, Second("a"))>>
    /\ mp.pulls = 3

(***************************************************************************)
(* C30  StdMapPrinter, StdSetPrinter, HashTablePrinter: a second           *)
(* children() on the same printer, after the first child sequence was      *)
(* consumed in part or in full, yields the full child sequence again, and  *)
(* to_string reports the same count before and after.  The printers keep   *)
(* one RbtreeIterator or one _iter made in __init__: the second sequence   *)
(* goes on from where the first one was left.                              *)
(***************************************************************************)
C30_ChildrenRepeatable ==
    mp.printer \in {"StdMapPrinter", "StdSetPrinter", "HashTablePrinter"}
    => /\ (mp.calls = 2 /\ mp.pc = "stopped")
          => yielded = ChildrenOf(InOrder, mp.is_map)
       /\ \A i, j \in 1..Len(mp.strs) : mp.strs[i] = mp.strs[j]

(***************************************************************************)
(* C24  Variant A: to_string shows the optional fields in the order of     *)
(* their kHasBit_ constants: of two optional fields that are both shown,   *)
(* the one with the smaller constant comes first, whatever the order of    *)
(* the fields in memory.  The code walks self.type.fields()[1:] as gdb     *)
(* lists them and never sorts: a record laid out in another order is shown *)
(* in that order, and the statement fails.                                 *)
(***************************************************************************)
ValueToken(id) == NameValue(Printed(id), FieldVal(Cat(id).data))

C24_Proto1SortedByHasBit ==
    (MsgDone /\ msg.variant = "proto1" /\ msg.hasBitmap
        /\ msg.fail = NoFail /\ msg.badBit = "none" /\ msg.junk = 0)
    => \A i, j \in Range(OptionalIds(msg)) :
          (/\ KHasBitValue(msg, i) < KHasBitValue(msg, j)
           /\ Places(result, ValueToken(i)) # {}
           /\ Places(result, ValueToken(j)) # {})
          => \A p \in Places(result, ValueToken(i)) :
                \A q \in Places(result, ValueToken(j)) : p < q

(***************************************************************************)
(* C25  Variant B, no two markers with the same sort key.  In the loop of  *)
(* to_string the data fields still to be processed are the data fields in  *)
(* the order of declaration of their markers, whatever the order of the    *)
(* fields in memory, and the presence bit the next field is tested with is *)
(* (original statement) the position of its marker among all the markers,  *)
(* (amended statement) its position among the data fields in that order:   *)
(* a marker without data field is not counted.                             *)
(***************************************************************************)
\* the data fields in the order of declaration of their markers
MarkerOrder(m) == SelectSeq(MarkerIds(m), HasData)

\* the loop of to_string is about to process a field
InLoop ==
    /\ pc = "loop" /\ msg.variant = "proto2" /\ ~HasCollision(msg)
    /\ todo # <<>>

\* the fields still to be processed are the tail of the declaration order
DeclarationOrder ==
    LET D == MarkerOrder(msg)
    IN  /\ kBit + 1 + Len(todo) = Len(D)
        /\ \A i \in 1..Len(todo) :
              todo[i].name = Cat(D[kBit + 1 + i]).data

\* the entry the next pass of the loop processes
NextId == MarkerOrder(msg)[kBit + 2]

C25_BitIsMarkerPosition ==
    InLoop => /\ DeclarationOrder
              /\ kBit + 1 = IndexOf(MarkerIds(msg), NextId) - 1

C25_BitIsDataFieldRank ==
    InLoop => /\ DeclarationOrder
              /\ kBit + 1 = IndexOf(MarkerOrder(msg), NextId) - 1
              /\ kBit + 1 = BitIndex(msg.variant, msg.schema, NextId)

C25_Witness ==
    /\ InLoop
    /\ msg.schema = <<"x", "ab", "a">> /\ msg.rev /\ msg.fail = NoFail
    /\ msg.word = 3
    /\ kBit = 0
    /\ result = <<LT, ValueToken("ab")>>
    /\ todo = <<DataField(msg, "a")>>

(***************************************************************************)
(* SpecWide: to_string on records whose bitmap is read whole: a Variant A  *)
(* record, whose hasbits_ is read element by element, and a Variant B      *)
(* record with or without WordBits optional fields declared before those   *)
(* of its schema, so that the fields of the schema have the bit indexes    *)
(* WordBits, WordBits + 1, .. in the second word of _has_bits_.            *)
(***************************************************************************)
\* the Variant B record that holds, after WordBits unset optional fields,
\* what BaseRecord(schema, present, csize) holds
WideRecord(schema, present, csize) ==
    LET m == BaseRecord("proto2", schema, present, csize)
    IN  [m EXCEPT !.lead = WordBits, !.word = 0, !.high = m.word]

WideInit ==
    /\ \E variant \in {"proto1", "proto2"} :
         \E schema \in Schemas(IF variant = "proto1" THEN Proto1Ids ELSE Proto2Ids) :
           \E present \in SUBSET Range(SelectSeq(schema, IsOptional)) :
             \E csize \in (IF "c" \in Range(schema) THEN 0..1 ELSE {0}) :
               \E m \in {BaseRecord(variant, schema, present, csize)}
                        \cup (IF variant = "proto2" /\ present # {} /\ csize = 0
                              THEN {WideRecord(schema, present, csize)}
                              ELSE {}) :
                  msg = m
    /\ pc = "start"
    /\ result = <<>> /\ first = TRUE /\ bits = 0 /\ kBit = -1
    /\ dup_index = None /\ todo = <<>> /\ exc = ""
    /\ yielded = <<>>
    /\ RbIdle /\ HashIdle /\ AuxIdle

SpecWide == WideInit /\ [][MsgNext]_vars

(***************************************************************************)
(* C26  Both variants, no read failing and no defect of the class: when    *)
(* to_string has returned, an optional field whose bit index is k is shown *)
(* as 'name:value' if and only if bit k of the whole presence bitmap is    *)
(* set, also for k >= WordBits, a bit of a later word of the bitmap.       *)
(* Variant B reads _has_bits_[0] only: a field with k >= WordBits is never *)
(* shown, and the statement fails.                                         *)
(***************************************************************************)
C26_BitDecidesToken ==
    (MsgDone /\ FaultFree(msg) /\ msg.hasBitmap)
    => \A id \in Range(OptionalIds(msg)) :
          (Places(result, ValueToken(id)) # {}) <=> IsPresent(msg, id)

(***************************************************************************)
(* SpecColl: to_string on records with collections of every kind: an array *)
(* of values (ProtoArray, proto2::RepeatedField), an array of pointers     *)
(* (ProtoPtrArray, proto2::RepeatedPtrField) and a message-set, the        *)
(* pointer field items_; with and without presence bitmap.                 *)
(***************************************************************************)
CollInit ==
    /\ \E variant \in {"proto1", "proto2"} :
         \E schema \in Schemas(CollectionIds) :
           \E present \in SUBSET Range(SelectSeq(schema, IsOptional)) :
             \E csize \in (IF {"c", "d"} \cap Range(schema) # {}
                           THEN 0..MaxElems ELSE {0}) :
               \E isize \in (IF "items" \in Range(schema) THEN 0..MaxElems ELSE {0}) :
                 \E bitmap \in (IF SelectSeq(schema, IsOptional) = <<>> /\ schema # <<>>
                                THEN {TRUE, FALSE} ELSE {TRUE}) :
                    msg = [BaseRecord(variant, schema, present, csize)
                              EXCEPT !.isize = isize, !.hasBitmap = bitmap]
    /\ pc = "start"
    /\ result = <<>> /\ first = TRUE /\ bits = 0 /\ kBit = -1
    /\ dup_index = None /\ todo = <<>> /\ exc = ""
    /\ yielded = <<>>
    /\ RbIdle /\ HashIdle /\ AuxIdle

SpecColl == CollInit /\ [][MsgNext]_vars

\* the number of elements collection field id holds
CollectionSize(m, id) == IF id = "items" THEN m.isize ELSE m.csize

\* text holds a token of collection field id
Contributes(text, id) ==
    IF id = "items"
    THEN \E i \in 1..Len(text) : text[i][1] \in {"emptyset", "mset"}
    ELSE Mentions(text, id)

(***************************************************************************)
(* C27  When to_string (of either variant, with or without the bitmap      *)
(* field, hence also to_string_repeated_only) has returned and no read     *)
(* failed, a collection field, which has no presence bit, has a token in   *)
(* the text if and only if it holds at least one element: an array of      *)
(* values, an array of pointers, the message-set pointer items_.  The code *)
(* shows a message-set of size 0 as the token '<>', and the statement      *)
(* fails.                                                                  *)
(***************************************************************************)
C27_CollectionShownIffNonEmpty ==
    (MsgDone /\ msg.fail = NoFail)
    => \A id \in Range(msg.schema) :
          Cat(id).rep
          => (Contributes(result, id) <=> CollectionSize(msg, id) > 0)

(***************************************************************************)
(* SpecProbe: one call of inherits_from_p on a type.  vtype.chain lists    *)
(* the tags of the types of the first fields: chain[1] the type of the     *)
(* first field of the type itself, chain[2] that of the first field of     *)
(* chain[1]'s type, ..; the last type has no field.  vtype.static = j      *)
(* says that the j-th of these first fields is static.                     *)
(***************************************************************************)
\* the candidate lists of the callers: is_proto1_message, is_proto2_message
CandidateSets ==
    {{T_ProtocolMessage, T_ProtocolMessageGroup},
     {T_proto2_Message, T_GenericRepeatedField}}

ProbeInit ==
    /\ \E tag \in BaseTags \cup {NoTag} :
         \E n \in 0..MaxChain :
           \E chain \in [1..n -> BaseTags] :
             \E static \in 0..n :
               vtype = [tag |-> tag, chain |-> chain, static |-> static]
    /\ \E candidates \in CandidateSets :
         reg = [pc |-> "call", candidates |-> candidates, result |-> None]
    /\ yielded = <<>>
    /\ pc = "idle" /\ MsgIdle /\ RbIdle /\ HashIdle /\ MapIdle /\ CordIdle /\ ArrayIdle

\* inherits_from_p(tp, candidates)
Probe_call ==
    /\ reg.pc = "call"
    /\ reg' = [reg EXCEPT !.pc = "returned",
                          !.result = inherits_from_p(vtype, 0, reg.candidates)]
    /\ UNCHANGED <<vtype, yielded, msgVars, rbVars, hashVars, mp, cordVars, arrVars>>

ProbeNext == Probe_call

SpecProbe == ProbeInit /\ [][ProbeNext]_vars

\* what the first-field chain of tp says about the candidates: the first
\* level that is static ("unknown") or of a candidate type ("yes"), "no"
\* when there is none
Verdict(tp, candidates) ==
    LET hits == {j \in 1..Len(tp.chain) :
                    tp.static = j \/ tp.chain[j] \in candidates}
        j0 == CHOOSE j \in hits : \A k \in hits : j <= k
    IN  IF hits = {} THEN "no"
        ELSE IF tp.static = j0 THEN "unknown"
        ELSE "yes"

\* the type without fields, on which the chain of every type ends
NoFields == [tag |-> T_Other, chain |-> <<>>, static |-> 0]

(***************************************************************************)
(* C28  inherits_from_p(tp, candidates) looks at the first field of each   *)
(* type along the chain only and never at the tag of tp itself.  Original  *)
(* statement: the result is tri-state, 'yes' when a first field's type is  *)
(* a candidate, 'unknown' when a first field is static, 'no' when the      *)
(* chain ends: the result for a static first field differs from the result *)
(* for a chain that ends.  Amended statement: the result is True in the    *)
(* first case and None in both others.                                     *)
(***************************************************************************)
C28_TriState ==
    reg.pc = "returned"
    => LET v == Verdict(vtype, reg.candidates)
           no == inherits_from_p(NoFields, 0, reg.candidates)
       IN  /\ reg.result = True <=> v = "yes"
           /\ v = "no" => reg.result = no
           /\ v = "unknown" => reg.result # no /\ reg.result # True

C28_TrueOrNone ==
    reg.pc = "returned"
    => LET v == Verdict(vtype, reg.candidates)
       IN  /\ reg.result \in {True, None}
           /\ reg.result = True <=> v = "yes"
           /\ v \in {"no", "unknown"} => reg.result = None
           /\ \A tag \in BaseTags \cup {NoTag} :
                 inherits_from_p([vtype EXCEPT !.tag = tag], 0, reg.candidates)
                    = reg.result

\* the type is itself a candidate, its first field is of another type whose
\* first field is static: the result is None
C28_Witness ==
    /\ reg.pc = "returned"
    /\ vtype.tag \in reg.candidates
    /\ Len(vtype.chain) = 2 /\ vtype.static = 2
    /\ vtype.chain[1] \notin reg.candidates
    /\ vtype.chain[2] \in reg.candidates
    /\ reg.result = None

(***************************************************************************)
(* SpecPiece: StringPiecePrinter.to_string on a StringPiece.  cord is the  *)
(* inspected value with the display limit set (None: no limit), cp the     *)
(* call and what it returns: the number and the string of                  *)
(* 'StringPiece of length %d: "%s"'.                                       *)
(***************************************************************************)
\* largest declared length of an inspected StringPiece
MaxPiece == 4

\* StringPiecePrinter.to_string
StringPiecePrinter_to_string(val, limit) ==
    LET length == IF limit # None /\ limit # 0 /\ limit < val.length_
                  THEN limit ELSE val.length_
        s == string(val.ptr_, length)
    IN  [length |-> length,
         s |-> IF limit # None /\ length > limit THEN s \o Ellipsis ELSE s]

PieceInit ==
    /\ \E L \in 0..MaxPiece :
         \E bytes \in [1..L -> {97, 98}] :
           \E limit \in {None} \cup 1..MaxLimit :
              cord = [length_ |-> L, ptr_ |-> bytes, limit |-> limit]
    /\ cp = [pc |-> "new"]
    /\ yielded = <<>>
    /\ pc = "idle" /\ MsgIdle /\ RbIdle /\ HashIdle /\ MapIdle /\ ArrayIdle /\ RegIdle

Piece_to_string ==
    /\ cp.pc = "new"
    /\ cp' = [pc |-> "returned",
              text |-> StringPiecePrinter_to_string(cord, cord.limit)]
    /\ UNCHANGED <<cord, yielded, msgVars, rbVars, hashVars, mp, arrVars, regVars>>

PieceNext == Piece_to_string

SpecPiece == PieceInit /\ [][PieceNext]_vars

(***************************************************************************)
(* C29  StringPiecePrinter.to_string with display limit K on a StringPiece *)
(* of declared length L: the string is the first K characters followed by  *)
(* ' ...' when L > K, the L characters without marker when L <= K or no    *)
(* limit is set, and the number after 'of length' is L in every case.  The *)
(* code overwrites the length with the limit before it prints the number   *)
(* and before it tests for the marker, and the statement fails.            *)
(***************************************************************************)
C29_PieceLimit ==
    cp.pc = "returned"
    => LET L == cord.length_
           K == cord.limit
       IN  /\ cp.text.length = L
           /\ cp.text.s = IF K # None /\ L > K
                          THEN string(cord.ptr_, K) \o Ellipsis
                          ELSE string(cord.ptr_, L)

====
